---- MODULE Spec2Model ----
(***************************************************************************)
(* A model of the gieter listing pipeline: the stage runner with its file  *)
(* cache (src/src/cache.ts), the pipeline driver and the ai-enrich stage.  *)
(***************************************************************************)
EXTENDS Integers, Sequences, FiniteSets, TLC

(***************************************************************************)
(* Bounds of the model.                                                    *)
(***************************************************************************)
\* number of runStep invocations that may overlap in time
NumCallers == 2
\* number of runStep invocations in one behaviour
MaxCalls == 3

(***************************************************************************)
(* JavaScript values handed to and returned by a stage.  A primitive is    *)
(* <<"prim", a>>, an object is <<"obj", props>> with props the sequence of *)
(* its <<key, value>> properties in insertion order.  The number 1 is the  *)
(* atom "1"; NaN, null and undefined are the atoms of the same name.       *)
(***************************************************************************)
Atoms == {"1", "NaN", "null", "undefined"}

\* the atoms a field of a stage's input or result holds in this model
FieldAtoms == {"1", "NaN", "null"}

Prim(a) == <<"prim", a>>

Obj(props) == <<"obj", props>>

\* the values a stage is called with
InputValues == {Obj(<< <<"score", a>> >>) : a \in FieldAtoms}

\* the values a stage's run function returns
ResultValues == {Prim("null")} \cup {Obj(<< <<"score", a>> >>) : a \in FieldAtoms \ {"null"}}

NoValue == <<"none">>

\* JSON.stringify of a primitive inside an object: NaN is written as null
SerializeAtom(a) == IF a \in {"NaN", "null"} THEN "null" ELSE a

\* JSON.stringify of the properties of an object: a property whose value is
\* undefined is left out, the others are joined by commas in insertion order
RECURSIVE SerializeProps(_, _)
SerializeProps(props, first) ==
  IF props = <<>> THEN <<>>
  ELSE IF Head(props)[2] = "undefined" THEN SerializeProps(Tail(props), first)
  ELSE (IF first THEN <<>> ELSE <<",">>)
       \o <<"\"", Head(props)[1], "\":", SerializeAtom(Head(props)[2])>>
       \o SerializeProps(Tail(props), FALSE)

\* JSON.stringify(v) as a sequence of tokens.  JSON.stringify(undefined) is
\* undefined, which string concatenation renders as "undefined".
JSONstringify(v) ==
  IF v[1] = "prim"
  THEN (IF v[2] = "undefined" THEN <<"undefined">> ELSE <<SerializeAtom(v[2])>>)
  ELSE <<"{">> \o SerializeProps(v[2], TRUE) \o <<"}">>

\* the values JSON text can denote (no NaN, no undefined)
JsonValues ==
  {Prim("null"), Prim("1"), Obj(<<>>), Obj(<< <<"score", "1">> >>), Obj(<< <<"score", "null">> >>)}

\* TRUE when JSON.parse(text) succeeds
Parses(text) == \E j \in JsonValues : JSONstringify(j) = text

\* JSON.parse(text): the value whose JSON text it is
JSONparse(text) == CHOOSE j \in JsonValues : JSONstringify(j) = text

\* an object with its undefined-valued properties removed
StripUndefined(v) ==
  IF v[1] = "prim" THEN v
  ELSE Obj(SelectSeq(v[2], LAMBDA p : p[2] # "undefined"))

\* deep equality of two values, a property holding undefined counting as absent
\* and NaN being equal to NaN
DeepEqual(v, w) == StripUndefined(v) = StripUndefined(w)

(***************************************************************************)
(* The stage runner, src/src/cache.ts.                                     *)
(***************************************************************************)
CACHE_DIR == "./.cache"

\* a stage name is a sequence of tokens, so that a reference can be appended to it
StepNames == {<<"compute-final-rating">>}

Versions == {<<"1">>, <<"2">>}

\* Bun.hash(s).toString(): the digest is named by the string hashed, that is,
\* the 64-bit hash is taken to be free of collisions
BunHash(s) == <<s>>

\* cache.ts line 24
Fingerprint_IgnoreVersion(inputString, version) == BunHash(inputString)

Fingerprint(inputString, version) == BunHash(inputString \o version)

\* cache.ts line 25
CachePath(name, fingerprint) ==
  <<CACHE_DIR, "/">> \o name \o <<"_">> \o fingerprint \o <<".json">>

\* the cache file of a call of runStep(step, input)
PathOf(name, version, input) == CachePath(name, Fingerprint(JSONstringify(input), version))

VARIABLES
  cache,         \* the files of CACHE_DIR: path -> text (a sequence of tokens)
  log,           \* the runStep invocations so far, in the order they began
  cur,           \* caller -> index in log of its invocation in progress, or 0
  firstWritten   \* path -> the text of the first completed write to it

\* the state of the pipeline (the driver and the steps)
VARIABLES
  run,           \* the number of processes started so far
  dpc,           \* where the driver of the running process is
  stageIn,       \* stage number -> <<input>> the driver passed in this run, or <<>>
  stageOut,      \* stage number -> <<output>> runStep returned in this run, or <<>>
  aiEnrich,      \* the invocation of the step ai-enrich in progress
  provCalls,     \* <<run, listing, "called">> for each listing the provider was
                 \* called for, <<run, listing, "failed">> if its judgment failed
  judged         \* <<run, listing>> for each per-listing step that ran and returned

\* the state beside the pipeline's cache and stages
VARIABLES
  requested,     \* the URLs the latest call of fetch-listings requested from the
                 \* source, in the order of the requests
  scored         \* the call of the tiered algorithmic-enrich: its input and output

\* the state of the voting service (src/unnamed/part_002)
VARIABLES
  dbListings,    \* the table listings: ref -> [elo, wins, losses, matches]
  dbVotes,       \* the table votes: its rows in the order of their ids
  handlers,      \* the POST /api/vote requests in progress and their replies
  matchup,       \* the latest reply of GET /api/matchup
  served         \* the number of requests of each kind taken up so far

runnerVars == <<log, cur, firstWritten>>

voteVars == <<dbListings, dbVotes, handlers, matchup, served>>

sideVars == <<requested, scored, voteVars>>

pipeVars == <<run, dpc, stageIn, stageOut, aiEnrich, provCalls, judged>>

vars ==
  <<cache, log, cur, firstWritten, run, dpc, stageIn, stageOut, aiEnrich, provCalls, judged,
    requested, scored, dbListings, dbVotes, handlers, matchup, served>>

Stages == 1 .. 8

\* no invocation of ai-enrich in progress
AiIdle ==
  [pc |-> "idle", input |-> <<>>, i |-> 0, results |-> <<>>, items |-> <<>>,
   settled |-> <<>>, hit |-> FALSE, out |-> <<>>, reordered |-> FALSE,
   failures |-> {}]

Callers == 1 .. NumCallers

\* the refs of the listings the voting service knows (the keys of
\* LISTINGS_BY_REF, part_002 line 85), which are the rows of the table
\* listings seeded at ELO 1000 (part_003 lines 22-45)
LISTINGS_BY_REF == {"a", "b", "c"}

\* the requests POST /api/vote that can be in progress at one time
VoteHandlers == {1, 2}

\* no request in progress; status is that of the latest reply, or 0
HandlerIdle(status) ==
  [pc |-> "idle", status |-> status, winner |-> "", loser |-> "",
   winnerElo |-> 0, loserElo |-> 0]

\* file(cachePath).exists()
Exists(path) == path \in DOMAIN cache

Init ==
  /\ cache = <<>>
  /\ log = <<>>
  /\ cur = [p \in Callers |-> 0]
  /\ firstWritten = <<>>
  /\ run = 0
  /\ dpc = "off"
  /\ stageIn = [n \in Stages |-> <<>>]
  /\ stageOut = [n \in Stages |-> <<>>]
  /\ aiEnrich = AiIdle
  /\ provCalls = {}
  /\ judged = {}
  /\ requested = <<>>
  /\ scored = <<>>
  /\ dbListings = [ref \in LISTINGS_BY_REF |-> [elo |-> 100000, wins |-> 0, losses |-> 0, matches |-> 0]]
  /\ dbVotes = <<>>
  /\ handlers = [h \in VoteHandlers |-> HandlerIdle(0)]
  /\ matchup = <<>>
  /\ served = [vote |-> 0, reset |-> 0, matchup |-> 0]

\* runStep(step, input) is called (cache.ts lines 22-26)
Begin(p, name, version, input) ==
  /\ cur[p] = 0
  /\ Len(log) < MaxCalls
  /\ log' = Append(log,
       [name |-> name, version |-> version, input |-> input,
        path |-> PathOf(name, version, input),
        pc |-> "exists", hit |-> FALSE, ran |-> FALSE, runThrew |-> FALSE,
        wrote |-> FALSE, corrupt |-> FALSE,
        result |-> NoValue, ret |-> "pending", retval |-> NoValue,
        pre |-> {i \in 1 .. Len(log) : log[i].ret # "pending"}])
  /\ cur' = [cur EXCEPT ![p] = Len(log) + 1]
  /\ UNCHANGED <<cache, firstWritten>>

\* await cacheFile.exists() (cache.ts line 28)
CheckExists(p) ==
  /\ cur[p] # 0
  /\ log[cur[p]].pc = "exists"
  /\ log' = [log EXCEPT ![cur[p]].hit = Exists(log[cur[p]].path),
                        ![cur[p]].pc = IF Exists(log[cur[p]].path) THEN "json" ELSE "run"]
  /\ UNCHANGED <<cache, cur, firstWritten>>

\* return cacheFile.json() (cache.ts lines 29-30): the file is read and parsed;
\* a text that is no JSON rejects the promise runStep returns
ReadJson(p) ==
  /\ cur[p] # 0
  /\ log[cur[p]].pc = "json"
  /\ LET text == cache[log[cur[p]].path] IN
     log' = [log EXCEPT
       ![cur[p]].pc = "done",
       ![cur[p]].corrupt = ~Parses(text),
       ![cur[p]].ret = IF Parses(text) THEN "returned" ELSE "threw",
       ![cur[p]].retval = IF Parses(text) THEN JSONparse(text) ELSE NoValue]
  /\ cur' = [cur EXCEPT ![p] = 0]
  /\ UNCHANGED <<cache, firstWritten>>

\* await step.run(input) returns a value (cache.ts line 34)
RunReturns(p, v) ==
  /\ cur[p] # 0
  /\ log[cur[p]].pc = "run"
  /\ log' = [log EXCEPT ![cur[p]].pc = "write", ![cur[p]].ran = TRUE, ![cur[p]].result = v]
  /\ UNCHANGED <<cache, cur, firstWritten>>

\* the files after a write of text to path
WriteFile(files, path, text) ==
  [q \in DOMAIN files \cup {path} |-> IF q = path THEN text ELSE files[q]]

\* a runStep that catches the failure of run, caches null and returns it
RunThrows_CachesNull(p) ==
  /\ cur[p] # 0
  /\ log[cur[p]].pc = "run"
  /\ log' = [log EXCEPT ![cur[p]].pc = "done", ![cur[p]].ran = TRUE,
                        ![cur[p]].runThrew = TRUE, ![cur[p]].ret = "returned",
                        ![cur[p]].retval = <<"prim", "null">>]
  /\ cache' = WriteFile(cache, log[cur[p]].path, <<"null">>)
  /\ cur' = [cur EXCEPT ![p] = 0]
  /\ UNCHANGED firstWritten

\* await step.run(input) raises or rejects (cache.ts line 34): nothing catches
\* it, so runStep rejects without reaching the write of line 35
RunThrows(p) ==
  /\ cur[p] # 0
  /\ log[cur[p]].pc = "run"
  /\ log' = [log EXCEPT ![cur[p]].pc = "done", ![cur[p]].ran = TRUE,
                        ![cur[p]].runThrew = TRUE, ![cur[p]].ret = "threw"]
  /\ cur' = [cur EXCEPT ![p] = 0]
  /\ UNCHANGED <<cache, firstWritten>>

\* write(cachePath, ...) opens the file, creating or truncating it (cache.ts line 35)
WriteOpen(p) ==
  /\ cur[p] # 0
  /\ log[cur[p]].pc = "write"
  /\ cache' = WriteFile(cache, log[cur[p]].path, <<>>)
  /\ log' = [log EXCEPT ![cur[p]].pc = "writing", ![cur[p]].wrote = TRUE]
  /\ UNCHANGED <<cur, firstWritten>>

\* the text written on a miss (cache.ts line 35)
WrittenText(result) == JSONstringify(result)

\* the value runStep returns on a miss (cache.ts line 36)
MissReturn(result) == result

\* write(cachePath, JSON.stringify(result)) completes; return result (cache.ts lines 35-36)
WriteDone(p) ==
  /\ cur[p] # 0
  /\ log[cur[p]].pc = "writing"
  /\ LET path == log[cur[p]].path
         text == WrittenText(log[cur[p]].result) IN
     /\ cache' = WriteFile(cache, path, text)
     /\ firstWritten' = IF path \in DOMAIN firstWritten THEN firstWritten
                        ELSE WriteFile(firstWritten, path, text)
  /\ log' = [log EXCEPT ![cur[p]].pc = "done", ![cur[p]].ret = "returned",
                        ![cur[p]].retval = MissReturn(log[cur[p]].result)]
  /\ cur' = [cur EXCEPT ![p] = 0]

\* the steps of caller p
CallStep(p) ==
  \/ \E name \in StepNames, version \in Versions, input \in InputValues :
       Begin(p, name, version, input)
  \/ CheckExists(p)
  \/ ReadJson(p)
  \/ \E v \in ResultValues : RunReturns(p, v)
  \/ RunThrows(p)
  \/ WriteOpen(p)
  \/ WriteDone(p)

CallerStep(p) == CallStep(p) /\ UNCHANGED <<pipeVars, sideVars>>

\* runStep invocations that may overlap in time
Next == \E p \in Callers : CallerStep(p)

Spec == Init /\ [][Next]_vars

\* runStep invocations made one after the other by one caller
NextSeq == CallerStep(1)

SpecSeq == Init /\ [][NextSeq]_vars


(***************************************************************************)
(* The listings and the pure functions of the stages.  A score is held in  *)
(* tenths (7.5 is 75), a star rating in tenths of a star (4.8 is 48).      *)
(***************************************************************************)
\* number of listing URLs the search pages hold
MaxUrls == 3
\* number of listings handed to ai-enrich when it is called on its own
MaxListings == 3
\* number of runs of the pipeline, and of calls of ai-enrich on its own
MaxRuns == 2
\* listings per batch of ai-enrich; 16 in the source (step6_ai-enrich.ts line
\* 159), scaled down so that a run has more than one batch
BATCH_SIZE == 2

MAX_KM == 700
\* 7.0, in tenths
MIN_ALGORITHMIC_SCORE == 70
MAX_ATTEMPTS == 3

\* the revisions of the page of a listing: revision 2 has another price
Revs == {1, 2}

\* the revisions the page of URL u goes through: the page of URL 1 changes
RevsOf(u) == IF u = 1 THEN Revs ELSE {1}

\* The page of URL u at revision rev, as parseGiteListing returns it, with the
\* price amount in hundreds of euros.  km stands
\* for Math.round(haversineKm(...)) of its coordinates and criteriaHigh for both
\* averages of scoreReviewCriteria being at least 4.5.  The pages differ so that
\* every branch of the filters is met: u mod 6 = 3 has no reviews, 4 is too
\* far, 0 has no coordinates, the others pass.  The page of u mod 6 = 5 shows no
\* price at revision 1: parsePrice gives it the amount 0 (parse.ts line 211).
Doc(u, rev) ==
  [ref |-> u, rev |-> rev,
   hasCoord |-> (u % 6 # 0),
   km |-> IF u % 6 = 4 THEN 900 ELSE IF u % 6 = 2 THEN 100 ELSE 300,
   ratingValue |-> IF u % 6 = 3 THEN 32 ELSE IF u % 6 = 2 THEN 42 ELSE 48,
   ratingCount |-> IF u % 6 = 3 THEN 0 ELSE IF u % 6 = 2 THEN 3 ELSE 5,
   criteriaHigh |-> (u % 6 = 1),
   amount |-> IF u % 6 = 5 /\ rev = 1 THEN 0 ELSE 5 + u + (rev - 1),
   allInclusive |-> (u % 6 = 5),
   nIncludes |-> u % 3]

\* Math.round(n / d) for n >= 0 and d > 0
RoundDiv(n, d) == (2 * n + d) \div (2 * d)

Min2(a, b) == IF a < b THEN a ELSE b

Max2(a, b) == IF a > b THEN a ELSE b

\* scoreConfidenceWeight with less weight for two reviews than for one
ScoreConfidenceWeight_TwoBelowOne(count) ==
  IF count = 0 THEN 0 ELSE IF count = 1 THEN 70 ELSE IF count = 2 THEN 60 ELSE 95

\* scoreConfidenceWeight (step4_algorithmic-enrich.ts lines 29-34), in hundredths
ScoreConfidenceWeight(count) ==
  IF count = 0 THEN 0 ELSE IF count = 1 THEN 70 ELSE IF count = 2 THEN 85 ELSE 95

\* rawBase = (value / 5) * 10 (step4_algorithmic-enrich.ts line 48), in tenths
\* of a point for a value in tenths of a star
RawBase(value) == 2 * value

\* damped = weight * rawBase + (1 - weight) * NEUTRAL (lines 46-49), in
\* thousandths of a point
Damped(value, count) ==
  LET weight == ScoreConfidenceWeight(count)
  IN weight * RawBase(value) + (100 - weight) * 50

\* scoreSocialProof without the early return of lines 39-44
ScoreSocialProof_NoEarlyReturn(listing) ==
  LET criteriaBonus == IF listing.criteriaHigh THEN 500 ELSE 0
  IN RoundDiv(Min2(10000, Max2(1000,
       Damped(listing.ratingValue, listing.ratingCount) + criteriaBonus)), 100)

\* scoreSocialProof (step4_algorithmic-enrich.ts lines 36-67): the score in tenths.
\* damped + criteriaBonus is held in thousandths.
ScoreSocialProof(listing) ==
  IF listing.ratingCount = 0 THEN 50
  ELSE LET criteriaBonus == IF listing.criteriaHigh THEN 500 ELSE 0
       IN RoundDiv(Min2(10000, Max2(1000,
            Damped(listing.ratingValue, listing.ratingCount) + criteriaBonus)), 100)

\* The reason of scoreSocialProof (lines 42 and 57-66): the sentence of line 42,
\* or the parts the sentence of line 65 is made of.
SocialProofReason(listing) ==
  IF listing.ratingCount = 0 THEN <<"No reviews yet - no social proof available.">>
  ELSE <<listing.ratingValue, listing.ratingCount,
         IF listing.ratingCount >= 3 THEN "solid"
         ELSE IF listing.ratingCount = 2 THEN "limited" ELSE "very limited">>

\* seq with F applied to each element (Array.prototype.map)
MapSeq(seq, F(_)) == [i \in 1 .. Len(seq) |-> F(seq[i])]

\* x put into the sequence sorted, a sequence of <<key, value>> pairs in
\* ascending order of key, after the pairs whose key is not greater
RECURSIVE InsertByKey(_, _)
InsertByKey(sorted, x) ==
  IF sorted = <<>> THEN <<x>>
  ELSE IF Head(sorted)[1] <= x[1]
       THEN <<Head(sorted)>> \o InsertByKey(Tail(sorted), x)
       ELSE <<x>> \o sorted

RECURSIVE SortPairs(_)
SortPairs(pairs) ==
  IF pairs = <<>> THEN <<>>
  ELSE InsertByKey(SortPairs(SubSeq(pairs, 1, Len(pairs) - 1)), pairs[Len(pairs)])

\* seq sorted by ascending Key, elements of equal key keeping their order
\* (Array.prototype.sort is stable)
SortByKey(seq, Key(_)) ==
  MapSeq(SortPairs(MapSeq(seq, LAMBDA x : <<Key(x), x>>)), LAMBDA p : p[2])

\* filter-distance (step3_filter-distance.ts lines 19-35)
WithDistance(l) ==
  [ref |-> l.ref, rev |-> l.rev, ratingValue |-> l.ratingValue,
   ratingCount |-> l.ratingCount, criteriaHigh |-> l.criteriaHigh,
   amount |-> l.amount, allInclusive |-> l.allInclusive, nIncludes |-> l.nIncludes,
   hasCoord |-> l.hasCoord, distanceKm |-> l.km]

FilterDistance(listings) ==
  SortByKey(MapSeq(SelectSeq(listings, LAMBDA l : l.hasCoord /\ ~(l.km > MAX_KM)),
                   WithDistance),
            LAMBDA l : l.distanceKm)

\* algorithmic-enrich (step4_algorithmic-enrich.ts lines 74-84)
WithAlgorithmic(l) ==
  [ref |-> l.ref, rev |-> l.rev, ratingValue |-> l.ratingValue,
   ratingCount |-> l.ratingCount, criteriaHigh |-> l.criteriaHigh,
   amount |-> l.amount, allInclusive |-> l.allInclusive, nIncludes |-> l.nIncludes,
   hasCoord |-> l.hasCoord, distanceKm |-> l.distanceKm,
   socialProof |-> ScoreSocialProof(l)]

AlgorithmicEnrich(listings) == MapSeq(listings, WithAlgorithmic)

\* filter-algorithmic that lets every listing pass
FilterAlgorithmic_KeepsAll(listings) == listings

\* filter-algorithmic (step5_filter-algorithmic.ts lines 11-30)
FilterAlgorithmic(listings) ==
  SelectSeq(listings, LAMBDA l : ~(l.socialProof < MIN_ALGORITHMIC_SCORE))


(***************************************************************************)
(* The judgment provider call and the per-listing step of ai-enrich        *)
(* (step6_ai-enrich.ts).                                                   *)
(***************************************************************************)
AI_COMPONENTS == <<"outdoorChillPotential", "groupComfort", "locationVibe", "miscellaneous">>

\* What one call of the provider can come to: no 2xx status ("http"), an empty
\* content ("empty"), a content that is no JSON ("unparsable"), a JSON object of
\* the wrong shape ("invalid"), or an object with the four components.
FailedReplies == {"http", "empty", "unparsable"}

\* the raw scores of a reply of the right shape, in hundredths
ValidReplies ==
  {[outdoorChillPotential |-> 800, groupComfort |-> 650, locationVibe |-> 700,
    miscellaneous |-> 500],
   [outdoorChillPotential |-> 1250, groupComfort |-> 725, locationVibe |-> 30,
    miscellaneous |-> 500]}

\* Math.round(Math.min(10, Math.max(1, score)) * 10) / 10 (step6_ai-enrich.ts
\* line 128), from hundredths to tenths
ClampScore(score) == RoundDiv(Min2(1000, Max2(100, score)), 10)

\* the AiEnrichment callOpenRouter returns for a reply of the right shape
\* (step6_ai-enrich.ts lines 125-131)
ClampReply(parsed) == [key \in DOMAIN parsed |-> ClampScore(parsed[key])]

\* { ...l, ai } (step6_ai-enrich.ts line 150)
WithAi(l, ai) ==
  [ref |-> l.ref, rev |-> l.rev, ratingValue |-> l.ratingValue,
   ratingCount |-> l.ratingCount, criteriaHigh |-> l.criteriaHigh,
   amount |-> l.amount, allInclusive |-> l.allInclusive, nIncludes |-> l.nIncludes,
   hasCoord |-> l.hasCoord, distanceKm |-> l.distanceKm,
   socialProof |-> l.socialProof, ai |-> ai]

\* JSON.stringify of a value of the pipeline.  These values are arrays and
\* objects of strings, booleans and finite numbers, which JSON text denotes one
\* to one: the text is named by the value.  The empty text denotes nothing.
PipeText(v) == <<"json", v>>

PipeParses(text) == Len(text) = 2 /\ text[1] = "json"

PipeParse(text) == text[2]

\* the step of enrichListing (step6_ai-enrich.ts lines 144-152)
EnrichStepName(listing) == <<"ai-enrich-", listing.ref>>

EnrichVersion == <<"5">>

\* the cache file of runStep(step, listing) in enrichListing
EnrichPath(listing) ==
  CachePath(EnrichStepName(listing), Fingerprint(PipeText(listing), EnrichVersion))

\* the step ai-enrich (step6_ai-enrich.ts line 164)
AiEnrichPath(listings) ==
  CachePath(<<"ai-enrich">>, Fingerprint(PipeText(listings), <<"6">>))


(***************************************************************************)
(* The step ai-enrich: batches of concurrent enrichListing calls           *)
(* (step6_ai-enrich.ts lines 143-175, each through runStep of cache.ts).   *)
(***************************************************************************)
\* a loop that starts every listing left at once
Batch_AllAtOnce(listings, i) == SubSeq(listings, i + 1, Len(listings))

\* listings.slice(i, i + BATCH_SIZE) (step6_ai-enrich.ts line 168)
Batch(listings, i) == SubSeq(listings, i + 1, Min2(i + BATCH_SIZE, Len(listings)))

\* enrichListing(listing) has been called and is at runStep's test of the file
NewItem(listing) ==
  [listing |-> listing, pc |-> "exists", attempt |-> 0, value |-> <<>>, error |-> "none"]

\* the array Promise.all resolves to, in completion order
BatchResults_ByCompletion(items, settled) ==
  [k \in 1 .. Len(items) |-> items[settled[k]].value[1]]

\* the array Promise.all resolves to: the value of promise k at index k
\* (step6_ai-enrich.ts line 170)
BatchResults(items, settled) == [k \in 1 .. Len(items) |-> items[k].value[1]]

\* The loop of the step at offset i with the results so far (step6_ai-enrich.ts
\* lines 167-174): the next batch is started, or the loop is over, the step
\* returns results and runStep writes them and returns them (cache.ts lines 34-36).
AiLoop(listings, i, results, reordered) ==
  IF i < Len(listings)
  THEN /\ aiEnrich' = [AiIdle EXCEPT !.pc = "batch", !.input = listings, !.i = i,
                         !.results = results, !.reordered = reordered,
                         !.items = MapSeq(Batch(listings, i), NewItem)]
       /\ UNCHANGED cache
  ELSE /\ aiEnrich' = [AiIdle EXCEPT !.pc = "done", !.input = listings, !.i = i,
                         !.results = results, !.reordered = reordered,
                         !.out = results]
       /\ cache' = WriteFile(cache, AiEnrichPath(listings), PipeText(results))

\* runStep(aiEnrich, listings) is called (cache.ts lines 22-34): on a hit the
\* cached array is returned, on a miss the step starts its loop
AiEnrichCall(listings) ==
  /\ aiEnrich.pc = "idle"
  /\ IF Exists(AiEnrichPath(listings))
     THEN /\ aiEnrich' = [AiIdle EXCEPT !.pc = "done", !.input = listings, !.hit = TRUE,
                            !.out = PipeParse(cache[AiEnrichPath(listings)])]
          /\ UNCHANGED cache
     ELSE AiLoop(listings, 0, <<>>, FALSE)

\* the calls of enrichListing of a batch go on until they settle, also after
\* Promise.all has rejected
InFlight(k) ==
  /\ aiEnrich.pc \in {"batch", "failed"}
  /\ k \in 1 .. Len(aiEnrich.items)

\* promise k of the batch is fulfilled with value
Fulfil(k, value) ==
  aiEnrich' = [aiEnrich EXCEPT
    !.items[k].pc = "fulfilled",
    !.items[k].value = <<value>>,
    !.settled = Append(@, k),
    !.reordered = @ \/ \E j \in 1 .. k - 1 : aiEnrich.items[j].pc # "fulfilled"]

\* promise k of the batch is rejected with error: that of a failed call of the
\* provider, or "cache" for a cache file that cannot be read
Reject(k, error) ==
  aiEnrich' = [aiEnrich EXCEPT
    !.items[k].pc = "rejected",
    !.items[k].error = error,
    !.failures = IF error # "cache" THEN @ \cup {aiEnrich.items[k].listing.ref} ELSE @]

\* a per-listing step that never finds its file
ItemExists_AlwaysMiss(k) ==
  /\ InFlight(k)
  /\ aiEnrich.items[k].pc = "exists"
  /\ aiEnrich' = [aiEnrich EXCEPT !.items[k].pc = "fetch", !.items[k].attempt = 1]
  /\ UNCHANGED <<cache, runnerVars, sideVars, run, dpc, stageIn, stageOut, provCalls, judged>>

\* await cacheFile.exists() of the per-listing step (cache.ts line 28); on a
\* miss run is called, which calls callOpenRouter with attempt = 1
ItemExists(k) ==
  /\ InFlight(k)
  /\ aiEnrich.items[k].pc = "exists"
  /\ aiEnrich' = [aiEnrich EXCEPT
       !.items[k].pc = IF Exists(EnrichPath(aiEnrich.items[k].listing)) THEN "json" ELSE "fetch",
       !.items[k].attempt = IF Exists(EnrichPath(aiEnrich.items[k].listing)) THEN 0 ELSE 1]
  /\ UNCHANGED <<cache, runnerVars, sideVars, run, dpc, stageIn, stageOut, provCalls, judged>>

\* return cacheFile.json() of the per-listing step (cache.ts lines 29-30)
ItemReadJson(k) ==
  /\ InFlight(k)
  /\ aiEnrich.items[k].pc = "json"
  /\ LET text == cache[EnrichPath(aiEnrich.items[k].listing)] IN
     IF PipeParses(text) THEN Fulfil(k, PipeParse(text)) ELSE Reject(k, "cache")
  /\ UNCHANGED <<cache, runnerVars, sideVars, run, dpc, stageIn, stageOut, provCalls, judged>>

\* the provider is called and the call fails: fetch rejects or the status is no
\* 2xx, the content is empty or no JSON (step6_ai-enrich.ts lines 73-104); the
\* error goes through run and runStep to the promise of enrichListing
ItemReplyFails(k, reply) ==
  /\ InFlight(k)
  /\ aiEnrich.items[k].pc = "fetch"
  /\ provCalls' = provCalls \cup {<<run, aiEnrich.items[k].listing, "called">>,
                                   <<run, aiEnrich.items[k].listing, "failed">>}
  /\ Reject(k, reply)
  /\ UNCHANGED <<cache, runnerVars, sideVars, run, dpc, stageIn, stageOut, judged>>

\* a callOpenRouter that gives every component the score 5 when the reply has
\* the wrong shape
ItemReplyInvalid_Defaults(k) ==
  /\ InFlight(k)
  /\ aiEnrich.items[k].pc = "fetch"
  /\ provCalls' = provCalls \cup {<<run, aiEnrich.items[k].listing, "called">>}
  /\ aiEnrich' = [aiEnrich EXCEPT
       !.items[k].pc = "write",
       !.items[k].value =
         <<WithAi(aiEnrich.items[k].listing,
                  [outdoorChillPotential |-> 50, groupComfort |-> 50,
                   locationVibe |-> 50, miscellaneous |-> 50])>>]
  /\ UNCHANGED <<cache, runnerVars, sideVars, run, dpc, stageIn, stageOut, judged>>

\* a callOpenRouter that calls again after every reply of the wrong shape
ItemReplyInvalid_NoCap(k) ==
  /\ InFlight(k)
  /\ aiEnrich.items[k].pc = "fetch"
  /\ aiEnrich' = [aiEnrich EXCEPT !.items[k].attempt = @ + 1]
  /\ provCalls' = provCalls \cup {<<run, aiEnrich.items[k].listing, "called">>}
  /\ UNCHANGED <<cache, runnerVars, sideVars, run, dpc, stageIn, stageOut, judged>>

\* the provider is called and replies an object of the wrong shape
\* (step6_ai-enrich.ts lines 106-121): another attempt, or an error after
\* MAX_ATTEMPTS
ItemReplyInvalid(k) ==
  /\ InFlight(k)
  /\ aiEnrich.items[k].pc = "fetch"
  /\ IF aiEnrich.items[k].attempt < MAX_ATTEMPTS
     THEN /\ aiEnrich' = [aiEnrich EXCEPT !.items[k].attempt = @ + 1]
          /\ provCalls' = provCalls \cup {<<run, aiEnrich.items[k].listing, "called">>}
     ELSE /\ Reject(k, "schema")
          /\ provCalls' = provCalls \cup {<<run, aiEnrich.items[k].listing, "called">>,
                                           <<run, aiEnrich.items[k].listing, "failed">>}
  /\ UNCHANGED <<cache, runnerVars, sideVars, run, dpc, stageIn, stageOut, judged>>

\* the provider is called and replies the four components
\* (step6_ai-enrich.ts lines 123-131 and 149-150): run returns { ...l, ai }
ItemReplyValid(k, parsed) ==
  /\ InFlight(k)
  /\ aiEnrich.items[k].pc = "fetch"
  /\ provCalls' = provCalls \cup {<<run, aiEnrich.items[k].listing, "called">>}
  /\ aiEnrich' = [aiEnrich EXCEPT
       !.items[k].pc = "write",
       !.items[k].value = <<WithAi(aiEnrich.items[k].listing, ClampReply(parsed))>>]
  /\ UNCHANGED <<cache, runnerVars, sideVars, run, dpc, stageIn, stageOut, judged>>

\* write(cachePath, ...) of the per-listing step opens its file (cache.ts line 35)
ItemWriteOpen(k) ==
  /\ InFlight(k)
  /\ aiEnrich.items[k].pc = "write"
  /\ cache' = WriteFile(cache, EnrichPath(aiEnrich.items[k].listing), <<>>)
  /\ aiEnrich' = [aiEnrich EXCEPT !.items[k].pc = "writing"]
  /\ UNCHANGED <<runnerVars, sideVars, run, dpc, stageIn, stageOut, provCalls, judged>>

\* the write of the per-listing step completes and runStep returns the result
\* (cache.ts lines 35-36)
ItemWriteDone(k) ==
  /\ InFlight(k)
  /\ aiEnrich.items[k].pc = "writing"
  /\ cache' = WriteFile(cache, EnrichPath(aiEnrich.items[k].listing),
                        PipeText(aiEnrich.items[k].value[1]))
  /\ Fulfil(k, aiEnrich.items[k].value[1])
  /\ judged' = judged \cup {<<run, aiEnrich.items[k].listing>>}
  /\ UNCHANGED <<runnerVars, sideVars, run, dpc, stageIn, stageOut, provCalls>>

\* Promise.all(batch.map(enrichListing)) resolves when every promise of the batch
\* is fulfilled; results.push(...batchResults) and the loop goes on
\* (step6_ai-enrich.ts lines 170-171)
BatchResolves ==
  /\ aiEnrich.pc = "batch"
  /\ \A k \in 1 .. Len(aiEnrich.items) : aiEnrich.items[k].pc = "fulfilled"
  /\ AiLoop(aiEnrich.input, aiEnrich.i + BATCH_SIZE,
            aiEnrich.results \o BatchResults(aiEnrich.items, aiEnrich.settled),
            aiEnrich.reordered)
  /\ UNCHANGED <<runnerVars, sideVars, run, dpc, stageIn, stageOut, provCalls, judged>>

\* Promise.all rejects as soon as one promise of the batch is rejected: the await
\* of line 170 throws, run rejects and so does runStep (cache.ts line 34),
\* before anything is written for the step
BatchRejects ==
  /\ aiEnrich.pc = "batch"
  /\ \E k \in 1 .. Len(aiEnrich.items) : aiEnrich.items[k].pc = "rejected"
  /\ aiEnrich' = [aiEnrich EXCEPT !.pc = "failed"]
  /\ UNCHANGED <<cache, runnerVars, sideVars, run, dpc, stageIn, stageOut, provCalls, judged>>

\* the steps of an invocation of ai-enrich after its call
AiEnrichStep ==
  \/ \E k \in 1 .. BATCH_SIZE :
       \/ ItemExists(k)
       \/ ItemReadJson(k)
       \/ \E reply \in FailedReplies : ItemReplyFails(k, reply)
       \/ ItemReplyInvalid(k)
       \/ \E parsed \in ValidReplies : ItemReplyValid(k, parsed)
       \/ ItemWriteOpen(k)
       \/ ItemWriteDone(k)
  \/ BatchResolves
  \/ BatchRejects

\* the listing of URL u at revision rev as filter-algorithmic hands it on
Candidate(u, rev) == WithAlgorithmic(WithDistance(Doc(u, rev)))

\* the URLs whose listings pass filter-distance and filter-algorithmic
GoodUrls == {u \in {1, 2, 5} : u <= MaxListings + 2}

\* the arrays of n different URLs in ascending order of distance
UrlOrders(n) ==
  {f \in [1 .. n -> GoodUrls] :
     /\ \A a, b \in 1 .. n : a # b => f[a] # f[b]
     /\ \A a, b \in 1 .. n : a < b => Doc(f[a], 1).km <= Doc(f[b], 1).km}

\* the listings of the URLs us, each at one of its revisions
ListingsOf(us) ==
  {[k \in 1 .. Len(us) |-> Candidate(us[k], revs[k])] :
     revs \in {g \in [1 .. Len(us) -> Revs] : \A a \in 1 .. Len(us) : g[a] \in RevsOf(us[a])}}

\* The arrays ai-enrich is called with: listings of different URLs that passed
\* the filters, in ascending order of distance (filter-distance sorts them).
AiInputs ==
  {<<>>} \cup UNION {UNION {ListingsOf(us) : us \in UrlOrders(n)} :
                       n \in 1 .. Min2(MaxListings, 3)}

\* a process that awaits runStep(aiEnrich, listings) at its top level starts
AiProcessStarts(listings) ==
  /\ dpc = "off"
  /\ run < MaxRuns
  /\ run' = run + 1
  /\ AiEnrichCall(listings)
  /\ UNCHANGED <<runnerVars, sideVars, dpc, stageIn, stageOut, provCalls, judged>>

\* that process ends, with the value or the error of runStep; what is still in
\* flight is given up
AiProcessEnds ==
  /\ dpc = "off"
  /\ aiEnrich.pc \in {"done", "failed"}
  /\ aiEnrich' = AiIdle
  /\ UNCHANGED <<cache, runnerVars, sideVars, run, dpc, stageIn, stageOut, provCalls, judged>>

NextAi ==
  \/ \E listings \in AiInputs : AiProcessStarts(listings)
  \/ AiEnrichStep /\ dpc = "off"
  \/ AiProcessEnds

\* runs of ai-enrich on its own, one process after the other over one cache
SpecAi == Init /\ [][NextAi]_vars


(***************************************************************************)
(* compute-final-rating (step7_compute-final-rating.ts) and the sort of    *)
(* the driver.  Ratios of quality to price are compared and scaled as      *)
(* fractions of integers.                                                  *)
(***************************************************************************)
\* A score that may fail to be a finite number is held as Num(tenths), as NaN,
\* or as Null once it has been through JSON.
Num(n) == <<"number", n>>

NaN == <<"NaN">>

Null == <<"null">>

IsNum(x) == x[1] = "number"

\* JSON.stringify of a number: NaN is written as null
NumberToJson(x) == IF x = NaN THEN Null ELSE x

\* qualityScore (lines 22-31) times 5, in tenths: the sum of the five scores
QualityScore(l) ==
  l.socialProof + l.ai.outdoorChillPotential + l.ai.groupComfort
    + l.ai.locationVibe + l.ai.miscellaneous

\* effectivePrice (lines 33-38) times GROUP_SIZE, in euros
EffectivePrice(l) ==
  IF l.allInclusive THEN l.amount * 85
  ELSE IF l.nIncludes >= 2 THEN l.amount * 93
  ELSE l.amount * 100

\* the ratio of a is at most the ratio of b
RatioLeq(a, b) == QualityScore(a) * EffectivePrice(b) <= QualityScore(b) * EffectivePrice(a)

\* Math.round(70 * n / d) for 0 <= n <= d, by long division
Round70(n, d) ==
  LET q == n \div d
      x1 == 7 * (n % d)
      x2 == 10 * (x1 % d)
      r2 == x2 % d
  IN 70 * q + 10 * (x1 \div d) + (x2 \div d) + (IF 2 * r2 >= d THEN 1 ELSE 0)

\* scoreValue (lines 40-65) over listings whose prices are all positive: the
\* score in tenths
ScoreValuePriced(listing, allListings) ==
  LET lo == allListings[CHOOSE i \in 1 .. Len(allListings) :
               \A j \in 1 .. Len(allListings) : RatioLeq(allListings[i], allListings[j])]
      hi == allListings[CHOOSE i \in 1 .. Len(allListings) :
               \A j \in 1 .. Len(allListings) : RatioLeq(allListings[j], allListings[i])]
      \* (ratio - min) / (max - min) = num / den
      num == (QualityScore(listing) * EffectivePrice(lo)
                - QualityScore(lo) * EffectivePrice(listing)) * EffectivePrice(hi)
      den == (QualityScore(hi) * EffectivePrice(lo)
                - QualityScore(lo) * EffectivePrice(hi)) * EffectivePrice(listing)
  IN IF RatioLeq(hi, lo) THEN 55
     ELSE Min2(90, Max2(20, 20 + Round70(num, den)))

\* scoreValue (lines 40-65).  A price of 0 makes the ratio quality / price
\* Infinity, the quality being positive.  When every ratio is Infinity min ===
\* max; when only some are, max is Infinity and (ratio - min) / (max - min) is
\* 0 for a finite ratio and Infinity / Infinity = NaN for an infinite one, which
\* Math.max, Math.min and Math.round hand on.
ScoreValue(listing, allListings) ==
  LET free == {i \in 1 .. Len(allListings) : EffectivePrice(allListings[i]) = 0} IN
  IF free = {} THEN Num(ScoreValuePriced(listing, allListings))
  ELSE IF free = 1 .. Len(allListings) THEN Num(55)
  ELSE IF EffectivePrice(listing) = 0 THEN NaN
  ELSE Num(20)

\* a computeFinalRating that leaves the value score out of the mean
ComputeFinalRating_WithoutValue(value, socialProof, ai) ==
  Num(RoundDiv(socialProof + ai.outdoorChillPotential + ai.groupComfort
                 + ai.locationVibe + ai.miscellaneous, 5))

\* computeFinalRating (lines 72-83), in tenths; a sum with NaN is NaN
ComputeFinalRating(value, socialProof, ai) ==
  IF ~IsNum(value) THEN NaN
  ELSE Num(RoundDiv(value[2] + socialProof + ai.outdoorChillPotential + ai.groupComfort
                      + ai.locationVibe + ai.miscellaneous, 6))

\* the element of the array the step returns (lines 91-103)
WithEnrichment(listing, listings) ==
  LET value == ScoreValue(listing, listings) IN
  [ref |-> listing.ref, rev |-> listing.rev, ratingValue |-> listing.ratingValue,
   ratingCount |-> listing.ratingCount, criteriaHigh |-> listing.criteriaHigh,
   amount |-> listing.amount, allInclusive |-> listing.allInclusive,
   nIncludes |-> listing.nIncludes, hasCoord |-> listing.hasCoord,
   distanceKm |-> listing.distanceKm,
   enrichment |-> [socialProof |-> listing.socialProof, ai |-> listing.ai,
                   value |-> value,
                   finalRating |-> ComputeFinalRating(value, listing.socialProof, listing.ai)]]

\* the step compute-final-rating (lines 90-105)
ComputeFinalRatingStep(listings) ==
  [k \in 1 .. Len(listings) |-> WithEnrichment(listings[k], listings)]

\* JSON.stringify of the array of compute-final-rating
EnrichedToJson(enriched) ==
  [k \in 1 .. Len(enriched) |->
     [enriched[k] EXCEPT !.enrichment.value = NumberToJson(@),
                         !.enrichment.finalRating = NumberToJson(@)]]

\* the finalRating of a listing as the subtraction of the comparator takes it:
\* null counts as 0
RatingKey(l) ==
  IF l.enrichment.finalRating = Null THEN 0 ELSE l.enrichment.finalRating[2]

\* a driver that hands the array on as compute-final-rating returned it
Results_Unsorted(enriched) == enriched

\* enriched.sort((a, b) => b.enrichment.finalRating - a.enrichment.finalRating)
\* (the driver, line 20) when the comparator gives a number for every pair
Results(enriched) == SortByKey(enriched, LAMBDA l : 0 - RatingKey(l))

\* The arrays the sort of line 20 can leave.  With a finalRating that is NaN the
\* comparator returns NaN, which sort takes as 0: it is no consistent
\* comparator, and the order is then left to the implementation.
SortOutcomes(enriched) ==
  IF \E k \in 1 .. Len(enriched) : enriched[k].enrichment.finalRating = NaN
  THEN {[k \in 1 .. Len(enriched) |-> enriched[perm[k]]] :
          perm \in Permutations(1 .. Len(enriched))}
  ELSE {Results(enriched)}


(***************************************************************************)
(* The driver: the top level of the program, one await of runStep after    *)
(* the other.  A rejected await ends the process.                          *)
(***************************************************************************)
StageNames ==
  <<"fetch-urls", "fetch-listings", "filter-distance", "algorithmic-enrich",
    "filter-algorithmic", "ai-enrich", "compute-final-rating", "generate-site">>

\* the version of each step's createStep
StageVersions == <<"2", "2", "1", "5", "3", "6", "5", "8">>

\* the cache file of runStep(step n, input)
StagePath(n, inputString) ==
  CachePath(<<StageNames[n]>>, Fingerprint(inputString, <<StageVersions[n]>>))

\* runStep that writes no cache file for a null result
RunStep_NullNotCached(files, path, result) ==
  IF path \in DOMAIN files
  THEN [files |-> files, out |-> PipeParse(files[path])]
  ELSE [files |-> IF result = <<>> THEN files ELSE WriteFile(files, path, PipeText(result)),
        out |-> result]

\* runStep(step, input) of a step that computes result, from the await to the
\* return (cache.ts lines 22-36): the files afterwards and the value returned
RunStep(files, path, result) ==
  IF path \in DOMAIN files
  THEN [files |-> files, out |-> PipeParse(files[path])]
  ELSE [files |-> WriteFile(files, path, PipeText(result)), out |-> result]

\* the URL arrays the search pages give, in page order
SearchResults ==
  {SubSeq(page, 1, Min2(Len(page), MaxUrls)) :
     page \in {<<5, 1, 2, 3>>, <<3, 1, 4, 2>>, <<6, 2, 1, 5>>}}

\* the driver goes from stage n on, having passed input and got out
Returned(n, input, out, next) ==
  /\ stageIn' = [stageIn EXCEPT ![n] = <<input>>]
  /\ stageOut' = [stageOut EXCEPT ![n] = <<out>>]
  /\ dpc' = next

\* the await of stage n rejects: the process ends with the error
Threw(n, input) ==
  /\ stageIn' = [stageIn EXCEPT ![n] = <<input>>]
  /\ dpc' = "aborted"
  /\ UNCHANGED stageOut

\* bun run of the driver
ProcessStarts ==
  /\ dpc = "off"
  /\ run < MaxRuns
  /\ run' = run + 1
  /\ dpc' = "fetch-urls"
  /\ stageIn' = [n \in Stages |-> <<>>]
  /\ stageOut' = [n \in Stages |-> <<>>]
  /\ UNCHANGED <<cache, runnerVars, sideVars, aiEnrich, provCalls, judged>>

\* the process has ended; what was in flight is given up
ProcessEnds ==
  /\ dpc \in {"done", "aborted"}
  /\ dpc' = "off"
  /\ aiEnrich' = AiIdle
  /\ UNCHANGED <<cache, runnerVars, sideVars, run, stageIn, stageOut, provCalls, judged>>

\* const urls = await runStep(fetchUrls, undefined) (the driver, line 11); the
\* step returns the URLs of the search pages or throws on a page that is not ok
\* (step1_fetch-urls.ts)
FetchUrls(ok, urls) ==
  /\ dpc = "fetch-urls"
  /\ LET path == StagePath(1, JSONstringify(Prim("undefined"))) IN
     IF ~Exists(path) /\ ~ok
     THEN Threw(1, Prim("undefined")) /\ UNCHANGED cache
     ELSE /\ cache' = RunStep(cache, path, urls).files
          /\ Returned(1, Prim("undefined"), RunStep(cache, path, urls).out, "fetch-listings")
  /\ UNCHANGED <<runnerVars, sideVars, run, aiEnrich, provCalls, judged>>

\* what fetchListing's run comes to for one URL (step2_fetch-listings.ts
\* lines 28-42): fetch rejects, the page is not ok or does not parse (null),
\* or the page parses, at one of its revisions
FetchOutcomes ==
  {[kind |-> "throw", rev |-> 1], [kind |-> "null", rev |-> 1]}
    \cup {[kind |-> "ok", rev |-> rev] : rev \in Revs}

FetchListingPath(url) ==
  CachePath(<<"fetch-listing-", url>>, Fingerprint(PipeText(url), <<"1">>))

\* The loop of fetch-listings from URL i on (step2_fetch-listings.ts lines
\* 51-61), each fetchListing through runStep.  A listing or null is held as a
\* sequence of one or no element; requests are the URLs fetch was called for
\* (line 31), which happens only when runStep runs the per-URL step.
RECURSIVE FetchLoop(_, _, _, _)
FetchLoop(urls, i, files, outcomes) ==
  IF i > Len(urls)
  THEN [files |-> files, listings |-> <<>>, threw |-> FALSE, requests |-> <<>>]
  ELSE LET path == FetchListingPath(urls[i])
           fetched == IF outcomes[i].kind = "ok" THEN <<Doc(urls[i], outcomes[i].rev)>>
                      ELSE <<>>
           request == IF path \in DOMAIN files THEN <<>> ELSE <<urls[i]>>
       IN IF path \notin DOMAIN files /\ outcomes[i].kind = "throw"
          THEN [files |-> files, listings |-> <<>>, threw |-> TRUE, requests |-> request]
          ELSE LET call == RunStep(files, path, fetched)
                   rest == FetchLoop(urls, i + 1, call.files, outcomes)
               IN [rest EXCEPT !.listings = call.out \o @, !.requests = request \o @]

\* const listings = await runStep(fetchListings, urls) (the driver, line 12)
FetchListings(outcomes) ==
  /\ dpc = "fetch-listings"
  /\ LET urls == stageOut[1][1]
         path == StagePath(2, PipeText(urls))
         loop == FetchLoop(urls, 1, cache, outcomes)
     IN IF Exists(path)
        THEN /\ Returned(2, urls, PipeParse(cache[path]), "filter-distance")
             /\ UNCHANGED cache
             /\ requested' = <<>>
        ELSE /\ requested' = loop.requests
             /\ IF loop.threw
                THEN Threw(2, urls) /\ cache' = loop.files
                ELSE /\ cache' = WriteFile(loop.files, path, PipeText(loop.listings))
                     /\ Returned(2, urls, loop.listings, "filter-distance")
  /\ UNCHANGED <<runnerVars, scored, voteVars, run, aiEnrich, provCalls, judged>>

\* await runStep(step n, the output of stage n - 1) for a step that computes
\* result and does not throw
PureStage(n, result, next) ==
  /\ dpc = StageNames[n]
  /\ LET input == stageOut[n - 1][1]
         call == RunStep(cache, StagePath(n, PipeText(input)), result)
     IN /\ cache' = call.files
        /\ Returned(n, input, call.out, next)
  /\ UNCHANGED <<runnerVars, sideVars, run, aiEnrich, provCalls, judged>>

\* const filtered = await runStep(filterDistance, listings) (the driver, line 13)
FilterDistanceStage == PureStage(3, FilterDistance(stageOut[2][1]), "algorithmic-enrich")

\* const withAlgorithmic = await runStep(algorithmicEnrich, filtered) (line 14)
AlgorithmicEnrichStage == PureStage(4, AlgorithmicEnrich(stageOut[3][1]), "filter-algorithmic")

\* const filteredAlgorithmic = await runStep(filterAlgorithmic, withAlgorithmic)
\* (line 15)
FilterAlgorithmicStage == PureStage(5, FilterAlgorithmic(stageOut[4][1]), "ai-enrich")

\* runStep(aiEnrich, filteredAlgorithmic) is called (the driver, line 16)
AiEnrichStage ==
  /\ dpc = "ai-enrich"
  /\ AiEnrichCall(stageOut[5][1])
  /\ stageIn' = [stageIn EXCEPT ![6] = <<stageOut[5][1]>>]
  /\ dpc' = "await ai-enrich"
  /\ UNCHANGED <<runnerVars, sideVars, run, stageOut, provCalls, judged>>

\* const withAi = await ... : the promise is fulfilled (the driver, line 16)
AiEnrichReturns ==
  /\ dpc = "await ai-enrich"
  /\ aiEnrich.pc = "done"
  /\ stageOut' = [stageOut EXCEPT ![6] = <<aiEnrich.out>>]
  /\ dpc' = "compute-final-rating"
  /\ UNCHANGED <<cache, runnerVars, sideVars, run, stageIn, aiEnrich, provCalls, judged>>

\* the promise of line 16 is rejected: the top-level await throws and the
\* process ends
AiEnrichThrows ==
  /\ dpc = "await ai-enrich"
  /\ aiEnrich.pc = "failed"
  /\ dpc' = "aborted"
  /\ UNCHANGED <<cache, runnerVars, sideVars, run, stageIn, stageOut, aiEnrich, provCalls, judged>>

\* const enriched = await runStep(computeFinalRating, withAi) (the driver, line
\* 17): on a miss the array is returned as computed and written as JSON
ComputeFinalRatingStage ==
  /\ dpc = "compute-final-rating"
  /\ LET input == stageOut[6][1]
         path == StagePath(7, PipeText(input))
         result == ComputeFinalRatingStep(input)
     IN IF Exists(path)
        THEN /\ Returned(7, input, PipeParse(cache[path]), "generate-site")
             /\ UNCHANGED cache
        ELSE /\ cache' = WriteFile(cache, path, PipeText(EnrichedToJson(result)))
             /\ Returned(7, input, result, "generate-site")
  /\ UNCHANGED <<runnerVars, sideVars, run, aiEnrich, provCalls, judged>>

\* The driver sorts enriched, writes data/results.json and awaits
\* runStep(generateSite, results) (lines 19-25); generate-site writes the site
\* and returns null (step8_generate-site.ts lines 448-458).
GenerateSiteStage ==
  /\ dpc = "generate-site"
  /\ \E results \in SortOutcomes(stageOut[7][1]) :
       LET text == PipeText(EnrichedToJson(results))
           call == RunStep(cache, StagePath(8, text), <<>>)
       IN /\ cache' = WriteFile(call.files, <<"data/results.json">>, text)
          /\ Returned(8, results, call.out, "done")
  /\ UNCHANGED <<runnerVars, sideVars, run, aiEnrich, provCalls, judged>>

NextPipe ==
  \/ ProcessStarts
  \/ \E ok \in BOOLEAN, urls \in SearchResults : FetchUrls(ok, urls)
  \/ \E outcomes \in [1 .. MaxUrls -> FetchOutcomes] : FetchListings(outcomes)
  \/ FilterDistanceStage
  \/ AlgorithmicEnrichStage
  \/ FilterAlgorithmicStage
  \/ AiEnrichStage
  \/ AiEnrichStep /\ dpc \in {"await ai-enrich", "aborted"}
  \/ AiEnrichReturns
  \/ AiEnrichThrows
  \/ ComputeFinalRatingStage
  \/ GenerateSiteStage
  \/ ProcessEnds

\* runs of the pipeline, one process after the other over one cache
SpecPipe == Init /\ [][NextPipe]_vars

(***************************************************************************)
(* Claims about the stage runner.                                          *)
(***************************************************************************)
Calls == 1 .. Len(log)

\* two invocations of the same stage (name and version) with the same input
SameCall(i, j) ==
  /\ log[i].name = log[j].name
  /\ log[i].version = log[j].version
  /\ log[i].input = log[j].input

\* the run function of invocation i has been invoked
Invoked(i) == log[i].pc = "run" \/ log[i].ran

\* C1: when runStep is called twice in sequence with the same stage name,
\* version and input and the first call returned a value, the second call does
\* not invoke run and returns a value deeply equal to the one the first returned.
C1_SecondCallDeepEqual ==
  \A i, j \in Calls :
    (i \in log[j].pre /\ SameCall(i, j) /\ log[i].ret = "returned" /\ log[j].pc = "done")
      => /\ ~log[j].ran
         /\ log[j].ret = "returned"
         /\ DeepEqual(log[j].retval, log[i].retval)

\* C2: an invocation whose run function raised rejects and has written nothing:
\* its cache file does not exist unless a later invocation wrote it, and the
\* next invocation of the same stage with the same input invokes run again.
C2_FailureNotCached ==
  \A i \in Calls :
    log[i].runThrew =>
      /\ log[i].ret = "threw"
      /\ ~log[i].wrote
      /\ (\A j \in Calls : (j > i /\ log[j].path = log[i].path) => ~log[j].wrote)
           => ~Exists(log[i].path)
      /\ (i + 1 \in Calls /\ SameCall(i, i + 1) /\ log[i + 1].pc # "exists")
           => (~log[i + 1].hit /\ Invoked(i + 1))

\* C2 witness: a run that raised was followed by an invocation of the same stage
\* with the same input, which ran the stage again
C2_Witness ==
  \E i \in Calls :
    /\ log[i].runThrew
    /\ i + 1 \in Calls
    /\ SameCall(i, i + 1)
    /\ log[i + 1].ran

\* C3: for one stage name and one input, two versions give two cache files, and
\* the first invocation under a version misses the cache whatever was written
\* under other versions, so that run is invoked again.
C3_VersionChangesKey ==
  /\ \A i, j \in Calls :
       (log[i].name = log[j].name /\ log[i].input = log[j].input
          /\ log[i].version # log[j].version)
         => log[i].path # log[j].path
  /\ \A j \in Calls :
       (/\ log[j].pc # "exists"
        /\ \A k \in Calls :
             k < j => ~(log[k].name = log[j].name /\ log[k].version = log[j].version))
         => (~log[j].hit /\ Invoked(j))

\* C3 witness: an entry written under one version exists, and the same stage was
\* run again on the same input under another version
C3_Witness ==
  \E i, j \in Calls :
    /\ i < j
    /\ log[i].name = log[j].name
    /\ log[i].input = log[j].input
    /\ log[i].version # log[j].version
    /\ log[i].ret = "returned"
    /\ log[i].wrote
    /\ Exists(log[i].path)
    /\ log[j].ran

\* C4: for one stage name and version, two inputs that are not deeply equal have
\* different fingerprints.
C4_InputChangesFingerprint ==
  \A i, j \in Calls :
    (/\ log[i].name = log[j].name
     /\ log[i].version = log[j].version
     /\ ~DeepEqual(log[i].input, log[j].input))
      => Fingerprint(JSONstringify(log[i].input), log[i].version)
           # Fingerprint(JSONstringify(log[j].input), log[j].version)

\* C5: once an entry has been written, its file keeps that text whatever the
\* later and the overlapping invocations do, and no invocation reads a file
\* that is partially written.
C5_EntriesImmutable ==
  /\ \A path \in DOMAIN firstWritten : cache[path] = firstWritten[path]
  /\ \A i \in Calls : ~log[i].corrupt

\* C6: an invocation that finds its cache file unreadable treats it as a miss:
\* it invokes run and does not fail.
C6_CorruptEntryIsMiss ==
  \A i \in Calls :
    (log[i].corrupt /\ log[i].pc = "done") => (log[i].ran /\ log[i].ret = "returned")


(***************************************************************************)
(* Claims about ai-enrich.                                                 *)
(***************************************************************************)
\* value is listing with a judgment added
EnrichmentOf(value, listing) == value = WithAi(listing, value.ai)

\* C9: the per-listing result of a listing that was judged stays in the cache
\* with that listing's enrichment, and the provider is called in a run only for
\* listings no earlier run has judged, whatever the other listings of the runs
\* are and whether they failed, were added or changed.
C9_JudgedStayCached ==
  /\ \A j \in judged :
       /\ Exists(EnrichPath(j[2]))
       /\ PipeParses(cache[EnrichPath(j[2])])
       /\ EnrichmentOf(PipeParse(cache[EnrichPath(j[2])]), j[2])
  /\ \A c \in provCalls : \A j \in judged : ~(j[1] < c[1] /\ j[2] = c[2])

\* C9 witness: in the first run one listing was judged and the call for another
\* failed; the second run, over these listings, called the provider for the
\* one that had failed and not for the one that was judged, and returned
C9_Witness ==
  \E l, m \in {c[2] : c \in provCalls} :
    /\ l # m
    /\ <<1, l>> \in judged
    /\ <<1, m, "failed">> \in provCalls
    /\ <<1, m>> \notin judged
    /\ run = 2
    /\ aiEnrich.pc = "done"
    /\ \E a, b \in 1 .. Len(aiEnrich.input) : aiEnrich.input[a] = l /\ aiEnrich.input[b] = m
    /\ <<2, m>> \in judged
    /\ \A c \in provCalls : ~(c[1] = 2 /\ c[2] = l)

\* C10: the array ai-enrich returns holds, at each index, the enrichment of the
\* input listing at that index.
C10_OutputInInputOrder ==
  aiEnrich.pc = "done" =>
    /\ Len(aiEnrich.out) = Len(aiEnrich.input)
    /\ \A k \in 1 .. Len(aiEnrich.input) :
         EnrichmentOf(aiEnrich.out[k], aiEnrich.input[k])

\* C10 witness: ai-enrich ran and returned after a batch in which a call of
\* enrichListing completed before one of a lower index
C10_Witness ==
  /\ aiEnrich.pc = "done"
  /\ ~aiEnrich.hit
  /\ aiEnrich.reordered
  /\ Len(aiEnrich.out) > BATCH_SIZE


(***************************************************************************)
(* Claims about the driver.                                                *)
(***************************************************************************)
\* stage n has been called in this run
Called(n) == stageIn[n] # <<>>

\* stage n has returned in this run
HasReturned(n) == stageOut[n] # <<>>

\* the stages are called in their fixed order, each after the one before it has
\* returned, and a run that completes has called them all
LinearOrder ==
  /\ \A n \in Stages : HasReturned(n) => Called(n)
  /\ \A n \in Stages \ {1} : Called(n) => HasReturned(n - 1)
  /\ \A n \in Stages :
       dpc = StageNames[n] => (~Called(n) /\ \A m \in 1 .. n - 1 : HasReturned(m))
  /\ dpc = "done" => \A n \in Stages : HasReturned(n)

\* C7 as stated: the stages run in their fixed order and every stage after the
\* first receives exactly the output of the stage before it.
C7_ExactOutputAsInput ==
  /\ LinearOrder
  /\ \A n \in Stages \ {1} : Called(n) => stageIn[n] = stageOut[n - 1]

\* C7 amended: the stages run in their fixed order; stages 2 to 7 receive
\* exactly the output of the stage before them, and generate-site receives the
\* listings of compute-final-rating as the driver's sort left them: the same
\* listings, and, unless a final rating is NaN, in descending order of final
\* rating (null counting as 0) with listings of equal rating in the order
\* compute-final-rating returned them.
C7_OutputAsInputSortedForSite ==
  /\ LinearOrder
  /\ \A n \in 2 .. 7 : Called(n) => stageIn[n] = stageOut[n - 1]
  /\ Called(8) =>
       /\ \E perm \in Permutations(1 .. Len(stageOut[7][1])) :
            stageIn[8][1] = [k \in 1 .. Len(stageOut[7][1]) |-> stageOut[7][1][perm[k]]]
       /\ (\A l \in 1 .. Len(stageOut[7][1]) :
             stageOut[7][1][l].enrichment.finalRating # NaN)
            => \A j, k \in 1 .. Len(stageIn[8][1]) :
                 j < k =>
                   \/ RatingKey(stageIn[8][1][j]) > RatingKey(stageIn[8][1][k])
                   \/ /\ RatingKey(stageIn[8][1][j]) = RatingKey(stageIn[8][1][k])
                      /\ \E a, b \in 1 .. Len(stageOut[7][1]) :
                           /\ a < b
                           /\ stageOut[7][1][a] = stageIn[8][1][j]
                           /\ stageOut[7][1][b] = stageIn[8][1][k]

\* C7 witness: a run completed in which compute-final-rating returned listings
\* with finite final ratings in another order than the descending one
C7_Witness ==
  /\ dpc = "done"
  /\ Len(stageOut[7][1]) >= 2
  /\ \A l \in 1 .. Len(stageOut[7][1]) : IsNum(stageOut[7][1][l].enrichment.finalRating)
  /\ stageIn[8][1] # stageOut[7][1]

\* C8: when the judgment call for a listing has failed, ai-enrich does not fail
\* and the run is not aborted.
C8_JudgmentFailureStaysLocal ==
  aiEnrich.failures # {} => (aiEnrich.pc # "failed" /\ dpc # "aborted")

\* the calls of enrichListing that have been started and have not settled
Unsettled ==
  {k \in 1 .. Len(aiEnrich.items) : aiEnrich.items[k].pc \notin {"fulfilled", "rejected"}}

\* C11: at most BATCH_SIZE calls of enrichListing are unsettled at any time; the
\* calls started are those of the batch at the loop's offset, and every listing
\* before that offset has completed with its result.
C11_BoundedBatches ==
  /\ Cardinality(Unsettled) <= BATCH_SIZE
  /\ Len(aiEnrich.items) <= BATCH_SIZE
  /\ aiEnrich.pc \in {"batch", "failed"} =>
       /\ aiEnrich.i % BATCH_SIZE = 0
       /\ Len(aiEnrich.results) = aiEnrich.i
       /\ \A j \in 1 .. aiEnrich.i : EnrichmentOf(aiEnrich.results[j], aiEnrich.input[j])
       /\ \A k \in 1 .. Len(aiEnrich.items) :
            aiEnrich.items[k].listing = aiEnrich.input[aiEnrich.i + k]

\* C11 witness: the second batch is in flight, after a first batch of
\* BATCH_SIZE listings
C11_Witness ==
  /\ aiEnrich.pc = "batch"
  /\ aiEnrich.i = BATCH_SIZE
  /\ Len(aiEnrich.input) > BATCH_SIZE
  /\ \E k \in Unsettled : aiEnrich.items[k].pc = "fetch"

\* the calls of the provider made so far for call k of enrichListing
ProviderCalls(k) ==
  IF aiEnrich.items[k].pc = "fetch" THEN aiEnrich.items[k].attempt - 1
  ELSE aiEnrich.items[k].attempt

\* C12: the provider is called at most MAX_ATTEMPTS times for a listing, and a
\* listing whose replies kept the wrong shape is rejected with an error after
\* exactly MAX_ATTEMPTS calls, with no value.
C12_SchemaRetriesCapped ==
  \A k \in 1 .. Len(aiEnrich.items) :
    /\ ProviderCalls(k) <= MAX_ATTEMPTS
    /\ aiEnrich.items[k].attempt <= MAX_ATTEMPTS
    /\ aiEnrich.items[k].error = "schema" =>
         /\ aiEnrich.items[k].pc = "rejected"
         /\ ProviderCalls(k) = MAX_ATTEMPTS
         /\ aiEnrich.items[k].value = <<>>

\* C12 witness: a listing was rejected after MAX_ATTEMPTS replies of the wrong
\* shape
C12_Witness ==
  \E k \in 1 .. Len(aiEnrich.items) :
    /\ aiEnrich.items[k].error = "schema"
    /\ aiEnrich.items[k].attempt = MAX_ATTEMPTS

\* C13: a listing is rejected for a reply that is no JSON only after the
\* provider has been called MAX_ATTEMPTS times for it.
C13_UnparsableRetried ==
  \A k \in 1 .. Len(aiEnrich.items) :
    aiEnrich.items[k].error = "unparsable" => ProviderCalls(k) = MAX_ATTEMPTS

\* score, in tenths, is the raw score, in hundredths, brought into [1,10] and
\* rounded to one decimal
IsClampOf(score, raw) ==
  /\ score \in 10 .. 100
  /\ IF raw < 100 THEN score = 10
     ELSE IF raw > 1000 THEN score = 100
     ELSE raw - 5 < 10 * score /\ 10 * score <= raw + 5

\* ai holds the four components, each the clamped score of one reply of the
\* right shape
IsJudgment(ai) ==
  /\ DOMAIN ai = {AI_COMPONENTS[c] : c \in 1 .. Len(AI_COMPONENTS)}
  /\ \E parsed \in ValidReplies : \A key \in DOMAIN ai : IsClampOf(ai[key], parsed[key])

\* the per-listing cache files of the listings of the invocation in progress
\* that hold a whole text
EnrichEntries ==
  {EnrichPath(aiEnrich.input[j]) : j \in 1 .. Len(aiEnrich.input)}
    \cap {path \in DOMAIN cache : PipeParses(cache[path])}

\* C14: every value a call of enrichListing holds, every per-listing cache entry
\* and every element ai-enrich returns carries a judgment of four components
\* whose scores are those of one reply of the provider clamped to [1,10].
C14_JudgmentsFromProvider ==
  /\ \A k \in 1 .. Len(aiEnrich.items) :
       aiEnrich.items[k].value # <<>> => IsJudgment(aiEnrich.items[k].value[1].ai)
  /\ \A path \in EnrichEntries : IsJudgment(PipeParse(cache[path]).ai)
  /\ aiEnrich.pc = "done" =>
       \A j \in 1 .. Len(aiEnrich.out) : IsJudgment(aiEnrich.out[j].ai)

\* C14 witness: a judgment whose raw scores lay outside [1,10] on both sides
\* has been cached and returned by ai-enrich
C14_Witness ==
  /\ aiEnrich.pc = "done"
  /\ \E j \in 1 .. Len(aiEnrich.out) :
       /\ aiEnrich.out[j].ai.outdoorChillPotential = 100
       /\ aiEnrich.out[j].ai.locationVibe = 10
       /\ aiEnrich.out[j].ai.groupComfort = 73
       /\ EnrichPath(aiEnrich.input[j]) \in EnrichEntries

(***************************************************************************)
(* Claims about the scores.                                                *)
(***************************************************************************)
\* a score in tenths within [1,10]
InRange(score) == score \in 10 .. 100

\* C15: every component score the stages hand on lies within [1,10]: the social
\* proof of algorithmic-enrich, the four scores of ai-enrich and the value score
\* of compute-final-rating.
C15_ScoresInRange ==
  /\ HasReturned(4) =>
       \A k \in 1 .. Len(stageOut[4][1]) : InRange(stageOut[4][1][k].socialProof)
  /\ HasReturned(6) =>
       \A k \in 1 .. Len(stageOut[6][1]) :
         \A key \in DOMAIN stageOut[6][1][k].ai : InRange(stageOut[6][1][k].ai[key])
  /\ HasReturned(7) =>
       \A k \in 1 .. Len(stageOut[7][1]) :
         /\ IsNum(stageOut[7][1][k].enrichment.value)
         /\ InRange(stageOut[7][1][k].enrichment.value[2])

\* the listings of the sequence that have a price
Priced(listings) == SelectSeq(listings, LAMBDA l : l.amount # 0)

\* C16: in the output of compute-final-rating every value score and final
\* rating is a finite number; a listing with a price has the value score its
\* ratio has among the listings with a price, and the listings without a price
\* all have one and the same value score.
C16_NoPriceNeutral ==
  HasReturned(7) =>
    \A k \in 1 .. Len(stageOut[7][1]) :
      /\ IsNum(stageOut[7][1][k].enrichment.value)
      /\ IsNum(stageOut[7][1][k].enrichment.finalRating)
      /\ stageIn[7][1][k].amount # 0 =>
           stageOut[7][1][k].enrichment.value
             = Num(ScoreValuePriced(stageIn[7][1][k], Priced(stageIn[7][1])))
      /\ \A j \in 1 .. Len(stageOut[7][1]) :
           (stageIn[7][1][k].amount = 0 /\ stageIn[7][1][j].amount = 0) =>
             stageOut[7][1][k].enrichment.value = stageOut[7][1][j].enrichment.value

\* a < b as JavaScript compares two ratings: false when one of them is NaN
RatingLess(a, b) == IsNum(a) /\ IsNum(b) /\ a[2] < b[2]

\* the position of listing l in the output of compute-final-rating
PositionIn7(l) == CHOOSE a \in 1 .. Len(stageOut[7][1]) : stageOut[7][1][a] = l

\* C17: in the result list the driver writes and hands to generate-site, no
\* listing comes before one of a greater final rating, and listings of equal
\* final rating are in the order compute-final-rating returned them.
C17_ResultsSortedStable ==
  Called(8) =>
    \A j, k \in 1 .. Len(stageIn[8][1]) :
      j < k =>
        /\ ~RatingLess(stageIn[8][1][j].enrichment.finalRating,
                       stageIn[8][1][k].enrichment.finalRating)
        /\ stageIn[8][1][j].enrichment.finalRating
             = stageIn[8][1][k].enrichment.finalRating
             => PositionIn7(stageIn[8][1][j]) < PositionIn7(stageIn[8][1][k])

\* the sum, in tenths, of the six component scores of an element of the output
\* of compute-final-rating whose value score is a number
SumOfSix(e) ==
  e.enrichment.value[2] + e.enrichment.socialProof
    + e.enrichment.ai.outdoorChillPotential + e.enrichment.ai.groupComfort
    + e.enrichment.ai.locationVibe + e.enrichment.ai.miscellaneous

\* rating, in tenths, is sum / 6 rounded to the nearest tenth
IsMeanOfSix(rating, sum) == 6 * rating - 3 <= sum /\ sum < 6 * rating + 3

\* C18: every final rating in the output of compute-final-rating is a number
\* within [1,10] that equals the mean of the listing's six component scores
\* rounded to one decimal.
C18_FinalRatingIsMean ==
  HasReturned(7) =>
    \A k \in 1 .. Len(stageOut[7][1]) :
      /\ IsNum(stageOut[7][1][k].enrichment.finalRating)
      /\ IsNum(stageOut[7][1][k].enrichment.value)
      /\ InRange(stageOut[7][1][k].enrichment.finalRating[2])
      /\ IsMeanOfSix(stageOut[7][1][k].enrichment.finalRating[2], SumOfSix(stageOut[7][1][k]))

\* C19: compute-final-rating is called with the social proof and the four AI
\* scores of every listing of its population, and each element it returns holds
\* the six components of the listing it was made from and a final rating taken
\* over all six: their rounded mean, or no number when the value score is none.
C19_ComponentsBeforeAggregation ==
  /\ Called(7) =>
       /\ HasReturned(4) /\ HasReturned(6)
       /\ \A k \in 1 .. Len(stageIn[7][1]) :
            /\ InRange(stageIn[7][1][k].socialProof)
            /\ IsJudgment(stageIn[7][1][k].ai)
  /\ HasReturned(7) =>
       /\ Len(stageOut[7][1]) = Len(stageIn[7][1])
       /\ \A k \in 1 .. Len(stageOut[7][1]) :
            /\ stageOut[7][1][k].enrichment.socialProof = stageIn[7][1][k].socialProof
            /\ stageOut[7][1][k].enrichment.ai = stageIn[7][1][k].ai
            /\ IF IsNum(stageOut[7][1][k].enrichment.value)
               THEN /\ IsNum(stageOut[7][1][k].enrichment.finalRating)
                    /\ IsMeanOfSix(stageOut[7][1][k].enrichment.finalRating[2],
                                   SumOfSix(stageOut[7][1][k]))
               ELSE ~IsNum(stageOut[7][1][k].enrichment.finalRating)

\* C19 witness: compute-final-rating ran over two listings or more and
\* returned
C19_Witness ==
  /\ run = 1
  /\ HasReturned(7)
  /\ Len(stageOut[7][1]) >= 2
  /\ \E k \in 1 .. Len(stageOut[7][1]) : IsNum(stageOut[7][1][k].enrichment.finalRating)

\* C20: when the quality/price ratios of the listings given to
\* compute-final-rating are all equal every value score is 5.5; otherwise a
\* listing of the best ratio has the value score 9 and a listing of the worst
\* ratio the value score 2.  A price of 0 counts as the best ratio.
C20_ExtremesToEnds ==
  HasReturned(7) =>
    LET listings == stageIn[7][1]
        value(k) == stageOut[7][1][k].enrichment.value
        all == 1 .. Len(listings)
    IN IF \A j, k \in all : RatioLeq(listings[j], listings[k])
       THEN \A k \in all : value(k) = Num(55)
       ELSE \A k \in all :
              /\ (\A j \in all : RatioLeq(listings[j], listings[k])) => value(k) = Num(90)
              /\ (\A j \in all : RatioLeq(listings[k], listings[j])) => value(k) = Num(20)


(***************************************************************************)
(* The tiered generation of algorithmic-enrich (src/unnamed/part_001,      *)
(* version "2" of the step): value within the quality tier, social proof   *)
(* and practical amenities.  Here a price amount is in euros.              *)
(***************************************************************************)
GROUP_SIZE == 8
\* AMENITY_CHECKLIST.length (part_001 lines 147-183)
CHECKLIST_LENGTH == 8
\* number of listings in one input of the tiered step
MaxTier == 2

\* scoreReviewCriteria (part_001 lines 87-95) gives null (no element) or the
\* two averages (in tenths of a star); the bonus condition of lines 125-126
CriteriaHigh(criteria) ==
  criteria # <<>> /\ criteria[1].comfort >= 45 /\ criteria[1].cleanliness >= 45

\* the price part, the review part and the amenity part of a listing: hits is
\* the number of entries of AMENITY_CHECKLIST whose check holds, surfaceM2 has
\* no element when capacity.surfaceM2 is null
PriceParts ==
  {[quality |-> q, amount |-> a, allInclusive |-> inc[1], nIncludes |-> inc[2]] :
     q \in {2, 3}, a \in {100, 200},
     inc \in {<<FALSE, 0>>, <<FALSE, 1>>, <<FALSE, 3>>, <<TRUE, 0>>}}

ReviewParts ==
  {[ratingValue |-> v, ratingCount |-> c, criteria |-> cr] :
     v \in {0, 30, 48}, c \in {0, 1, 2, 3, 5},
     cr \in {<<>>, <<[comfort |-> 46, cleanliness |-> 46]>>,
             <<[comfort |-> 46, cleanliness |-> 40]>>}}

AmenityParts ==
  {[hits |-> h, surfaceM2 |-> m] : h \in {0, 6, 8}, m \in {<<>>, <<80>>, <<100>>, <<200>>}}

TierListing(ref, p, r, a) ==
  [ref |-> ref, quality |-> p.quality, amount |-> p.amount,
   allInclusive |-> p.allInclusive, nIncludes |-> p.nIncludes,
   ratingValue |-> r.ratingValue, ratingCount |-> r.ratingCount,
   criteria |-> r.criteria, criteriaHigh |-> CriteriaHigh(r.criteria),
   hits |-> a.hits, surfaceM2 |-> a.surfaceM2]

\* l.price.amount / GROUP_SIZE (part_001 lines 26 and 39), in units of
\* 1 / GROUP_SIZE of a euro
PerPerson(listing) == listing.amount

\* buildQualityPriceRanges (part_001 lines 23-36): tier -> the least and the
\* greatest price per person of the listings of the tier
BuildQualityPriceRanges(listings) ==
  LET tiers == {listings[k].quality : k \in 1 .. Len(listings)}
      prices(tier) == {PerPerson(listings[k]) :
                         k \in {j \in 1 .. Len(listings) : listings[j].quality = tier}}
  IN [tier \in tiers |->
        [min |-> CHOOSE x \in prices(tier) : \A y \in prices(tier) : x <= y,
         max |-> CHOOSE x \in prices(tier) : \A y \in prices(tier) : x >= y]]

\* inclusionBonus (part_001 lines 51-57), in hundredths of a point
InclusionBonus(listing) ==
  IF listing.allInclusive THEN 100
  ELSE IF listing.nIncludes >= 3 THEN 50
  ELSE IF listing.nIncludes >= 1 THEN 25 ELSE 0

\* scoreValue with every tier on the fallback of line 45
ScoreValueTiered_AlwaysFallback(listing, ranges) ==
  RoundDiv(Min2(1000, Max2(100, 700 + InclusionBonus(listing))), 10)

\* scoreValue (part_001 lines 38-59): the score in tenths.  baseScore +
\* inclusionBonus is the fraction num / den of hundredths of a point.
ScoreValueTiered(listing, ranges) ==
  LET fallback == \/ listing.quality \notin DOMAIN ranges
                  \/ ranges[listing.quality].min = ranges[listing.quality].max
      range == ranges[listing.quality]
      den == IF fallback THEN 1 ELSE range.max - range.min
      num == IF fallback THEN 700 + InclusionBonus(listing)
             ELSE (1000 + InclusionBonus(listing)) * den
                    - 900 * (PerPerson(listing) - range.min)
  IN RoundDiv(Min2(1000 * den, Max2(100 * den, num)), 10 * den)

\* scoreSpaceBonus (part_001 lines 185-192): the bonus in tenths of a point;
\* m2 / GROUP_SIZE >= 20 is m2 >= 20 * GROUP_SIZE
ScoreSpaceBonus(listing) ==
  IF listing.surfaceM2 = <<>> THEN 0
  ELSE IF listing.surfaceM2[1] >= 20 * GROUP_SIZE THEN 10
  ELSE IF listing.surfaceM2[1] >= 12 * GROUP_SIZE THEN 5 ELSE 0

\* scorePracticalAmenities without the space bonus
ScorePracticalAmenities_NoSpace(listing) ==
  RoundDiv(Min2(100 * CHECKLIST_LENGTH, Max2(10 * CHECKLIST_LENGTH, listing.hits * 100)),
           CHECKLIST_LENGTH)

\* scorePracticalAmenities (part_001 lines 194-217): the score in tenths;
\* 10 * (base + space.bonus) is held in units of 1 / CHECKLIST_LENGTH
ScorePracticalAmenities(listing) ==
  LET sum == listing.hits * 100 + ScoreSpaceBonus(listing) * CHECKLIST_LENGTH
  IN RoundDiv(Min2(100 * CHECKLIST_LENGTH, Max2(10 * CHECKLIST_LENGTH, sum)),
              CHECKLIST_LENGTH)

\* the step of part_001 lines 224-241
AlgorithmicEnrichTiered(listings) ==
  LET qualityPriceRanges == BuildQualityPriceRanges(listings)
  IN [k \in 1 .. Len(listings) |->
        [listing |-> listings[k],
         value |-> ScoreValueTiered(listings[k], qualityPriceRanges),
         socialProof |-> [score |-> ScoreSocialProof(listings[k]),
                          reason |-> SocialProofReason(listings[k])],
         practicalAmenities |-> ScorePracticalAmenities(listings[k])]]

\* the listing the others of an input are scored beside: no reviews, no amenity
Plain(ref, p) ==
  TierListing(ref, p, [ratingValue |-> 0, ratingCount |-> 0, criteria |-> <<>>],
              [hits |-> 0, surfaceM2 |-> <<>>])

\* the inputs of n listings: any first listing, followed by listings of any price
\* part
RECURSIVE TierInputs(_)
TierInputs(n) ==
  IF n = 1
  THEN {<<TierListing(1, p, r, a)>> : p \in PriceParts, r \in ReviewParts, a \in AmenityParts}
  ELSE {Append(listings, Plain(n, p)) : listings \in TierInputs(n - 1), p \in PriceParts}

\* the tiered step is called on an input and returns
TieredEnrich ==
  /\ scored = <<>>
  /\ \E n \in 1 .. MaxTier : \E listings \in TierInputs(n) :
       scored' = <<[input |-> listings, output |-> AlgorithmicEnrichTiered(listings)]>>
  /\ UNCHANGED <<cache, runnerVars, pipeVars, requested, voteVars>>

NextTiered == TieredEnrich

SpecTiered == Init /\ [][NextTiered]_vars


\* C21: when the tiered step is given exactly two listings of one quality tier,
\* priced at 100 and 200, with nothing included in the price, each of the two
\* has the value score 7.
C21_SameTierPairScoresSeven ==
  \A k \in 1 .. Len(scored) :
    LET in == scored[k].input
    IN (/\ Len(in) = 2
        /\ in[1].quality = in[2].quality
        /\ {in[1].amount, in[2].amount} = {100, 200}
        /\ \A j \in 1 .. 2 : ~in[j].allInclusive /\ in[j].nIncludes = 0)
       => \A j \in 1 .. 2 : scored[k].output[j].value = 70

\* the positions <<call, listing>> of the listings the tiered step was given
ScoredAt == {<<k, j>> \in (1 .. Len(scored)) \X (1 .. MaxTier) : j <= Len(scored[k].input)}

Dist(a, b) == IF a < b THEN b - a ELSE a - b

\* review counts up to which the damping is compared
DampingCounts == 0 .. 6

\* C22: the confidence weight is 0, 0.7, 0.85, 0.95 for 0, 1, 2 and 3 or more
\* reviews and damped = weight * raw + (1 - weight) * 5; for the raw score of
\* every scored listing the damped score lies between 5 and the raw score for
\* every count and its distance to the raw score does not grow with the count;
\* the social-proof score of a listing with reviews is the damped score of its
\* rating and count plus the bonus, clamped to 1..10 and rounded to tenths.
C22_DampingTowardsRaw ==
  \A at \in ScoredAt :
    LET l == scored[at[1]].input[at[2]]
        out == scored[at[1]].output[at[2]]
        raw == 100 * RawBase(l.ratingValue)
        d(c) == Damped(l.ratingValue, c)
        w(c) == IF c = 0 THEN 0 ELSE IF c = 1 THEN 70 ELSE IF c = 2 THEN 85 ELSE 95
    IN /\ \A c \in DampingCounts :
            /\ ScoreConfidenceWeight(c) = w(c)
            /\ 100 * d(c) = w(c) * raw + (100 - w(c)) * 5000
            /\ Min2(5000, raw) <= d(c) /\ d(c) <= Max2(5000, raw)
       /\ \A c1, c2 \in DampingCounts : c1 <= c2 => Dist(d(c2), raw) <= Dist(d(c1), raw)
       /\ l.ratingCount > 0 =>
            LET sum == d(l.ratingCount) + (IF l.criteriaHigh THEN 500 ELSE 0)
            IN /\ sum >= 1000 /\ sum <= 10000 => Dist(100 * out.socialProof.score, sum) <= 50
               /\ sum < 1000 => out.socialProof.score = 10
               /\ sum > 10000 => out.socialProof.score = 100

\* C22 witness: a listing rated 4.8 by two reviews without criteria was scored
\* 0.85 * 9.6 + 0.15 * 5 = 8.91, rounded to 8.9
C22_Witness ==
  \E at \in ScoredAt :
    /\ scored[at[1]].input[at[2]].ratingValue = 48
    /\ scored[at[1]].input[at[2]].ratingCount = 2
    /\ scored[at[1]].input[at[2]].criteria = <<>>
    /\ scored[at[1]].output[at[2]].socialProof.score = 89

\* C23: a listing whose aggregate rating count is 0 gets the social-proof score
\* 5 and the reason that there are no reviews, whatever its rating value and
\* the criteria of its reviews are.
C23_NoReviewsNeutral ==
  \A at \in ScoredAt :
    scored[at[1]].input[at[2]].ratingCount = 0 =>
      scored[at[1]].output[at[2]].socialProof =
        [score |-> 50, reason |-> <<"No reviews yet - no social proof available.">>]

\* C23 witness: a listing with the count 0, the rating value 4.8 and high
\* criteria averages was scored 5
C23_Witness ==
  \E at \in ScoredAt :
    /\ scored[at[1]].input[at[2]].ratingCount = 0
    /\ scored[at[1]].input[at[2]].ratingValue = 48
    /\ scored[at[1]].input[at[2]].criteriaHigh
    /\ scored[at[1]].output[at[2]].socialProof.score = 50

\* the listing of the scenario: 4.8/5 from 5 reviews, comfort and cleanliness
\* 4.6, 6 of the 8 checklist entries, 25 m2 for each of the GROUP_SIZE occupants
IsScenarioListing(l) ==
  /\ l.ratingValue = 48 /\ l.ratingCount = 5
  /\ l.criteria = <<[comfort |-> 46, cleanliness |-> 46]>>
  /\ l.hits = 6 /\ CHECKLIST_LENGTH = 8
  /\ l.surfaceM2 = <<25 * GROUP_SIZE>>

\* C24: the listing of the scenario gets a social-proof score of at least 9 and
\* a practical-amenities score of at least 8.5.
C24_ScenarioScores ==
  \A at \in ScoredAt :
    IsScenarioListing(scored[at[1]].input[at[2]]) =>
      /\ scored[at[1]].output[at[2]].socialProof.score >= 90
      /\ scored[at[1]].output[at[2]].practicalAmenities >= 85

\* C24 witness: the listing of the scenario was scored: 9.9 and 8.5
C24_Witness ==
  \E at \in ScoredAt :
    /\ IsScenarioListing(scored[at[1]].input[at[2]])
    /\ scored[at[1]].output[at[2]].socialProof.score = 99
    /\ scored[at[1]].output[at[2]].practicalAmenities = 85

\* the elements of a sequence
Range(seq) == {seq[k] : k \in 1 .. Len(seq)}

\* the refs of the listings of a sequence, in its order
Refs(listings) == [k \in 1 .. Len(listings) |-> listings[k].ref]

\* sub is seq with some elements left out (for sequences without repetition)
IsSubsequence(sub, seq) ==
  /\ Range(sub) \subseteq Range(seq)
  /\ \A a, b \in 1 .. Len(sub) : a < b =>
        \E c, d \in 1 .. Len(seq) : c < d /\ seq[c] = sub[a] /\ seq[d] = sub[b]

\* C25: fetch-listings is never aborted by a URL whose extraction fails: once
\* called it returns, and its output holds listings of its URLs, in URL order.
C25_FailingUrlNeverAborts ==
  Called(2) =>
    /\ HasReturned(2)
    /\ IsSubsequence(Refs(stageOut[2][1]), stageIn[2][1])

\* C27: the output of filter-algorithmic is the subsequence, in the original
\* order, of the listings of its input whose socialProof score is at least 7.0;
\* no listing without reviews is handed to ai-enrich, to compute-final-rating or
\* to generate-site.
C27_ThresholdFilter ==
  /\ HasReturned(5) =>
        stageOut[5][1] = SelectSeq(stageIn[5][1], LAMBDA l : l.socialProof >= 70)
  /\ \A n \in {6, 7, 8} : Called(n) =>
        \A k \in 1 .. Len(stageIn[n][1]) : stageIn[n][1][k].ratingCount # 0
  /\ \A n \in {6, 7} : HasReturned(n) =>
        \A k \in 1 .. Len(stageOut[n][1]) : stageOut[n][1][k].ratingCount # 0

\* C27 witness: filter-algorithmic was given a listing without reviews, scored
\* 5, and one that passes, and the run has got to generate-site
C27_Witness ==
  /\ Called(8)
  /\ \E k \in 1 .. Len(stageIn[5][1]) :
       stageIn[5][1][k].ratingCount = 0 /\ stageIn[5][1][k].socialProof = 50
  /\ Len(stageOut[5][1]) >= 1
  /\ Len(stageOut[5][1]) < Len(stageIn[5][1])

\* the per-URL cache file of url exists and holds null
NullCached(files, url) ==
  /\ FetchListingPath(url) \in DOMAIN files
  /\ PipeParse(files[FetchListingPath(url)]) = <<>>

\* C28: in every call of fetch-listings, a URL that the call requested from the
\* source and dropped without raising has its null cached afterwards; and a
\* URL whose null is cached is not requested from the source, is not in the
\* output and keeps its cache file.
C28_NullIsCached ==
  [][dpc = "fetch-listings" /\ dpc' # dpc =>
       \A u \in Range(stageOut[1][1]) :
         /\ (/\ u \in Range(requested')
             /\ HasReturned(2)'
             /\ u \notin Range(Refs(stageOut'[2][1])))
            => NullCached(cache', u)
         /\ NullCached(cache, u) =>
              /\ u \notin Range(requested')
              /\ NullCached(cache', u)
              /\ HasReturned(2)' => u \notin Range(Refs(stageOut'[2][1]))]_vars

\* C28 witness: in the second run fetch-listings ran its loop over URLs of
\* which one has its null cached; that URL was not requested and is not in the
\* output
C28_Witness ==
  /\ run = 2
  /\ HasReturned(2)
  /\ requested # <<>>
  /\ \E u \in Range(stageIn[2][1]) :
       /\ NullCached(cache, u)
       /\ u \notin Range(requested)
       /\ u \notin Range(Refs(stageOut[2][1]))


(***************************************************************************)
(* The voting service (src/unnamed/part_002): GET /api/matchup, POST       *)
(* /api/vote and POST /api/reset over the tables listings and votes.  An   *)
(* ELO rating is held in hundredths (1000 is 100000), as the service       *)
(* rounds it before storing it.                                            *)
(***************************************************************************)
\* number of requests the service takes up
MaxRequests == 3

\* Math.round(K * (1 - expected) * 100) with expected = 1 / (1 + 10 ^ (d / 400))
\* (part_002 lines 267-277, K = 32), for the differences d = loserElo -
\* winnerElo >= 0, in hundredths, that arise within MaxRequests + 1 requests
EloTable ==
  0 :> 1600 @@ 2 :> 1600 @@ 6 :> 1600 @@ 74 :> 1603 @@ 147 :> 1607 @@ 148 :> 1607 @@
  218 :> 1610 @@ 221 :> 1610 @@ 224 :> 1610 @@ 226 :> 1610 @@ 294 :> 1614 @@ 427 :> 1620 @@
  1026 :> 1647 @@ 1094 :> 1650 @@ 1175 :> 1654 @@ 1313 :> 1660 @@ 1379 :> 1663 @@ 1446 :> 1667 @@
  1453 :> 1667 @@ 1458 :> 1667 @@ 1467 :> 1668 @@ 1526 :> 1670 @@ 1527 :> 1670 @@ 1593 :> 1673 @@
  1594 :> 1673 @@ 1600 :> 1674 @@ 1604 :> 1674 @@ 1612 :> 1674 @@ 1673 :> 1677 @@ 1674 :> 1677 @@
  1733 :> 1680 @@ 1742 :> 1680 @@ 1747 :> 1680 @@ 1748 :> 1680 @@ 1754 :> 1681 @@ 1814 :> 1683 @@
  1821 :> 1684 @@ 1887 :> 1687 @@ 2350 :> 1708 @@ 2836 :> 1730 @@ 2913 :> 1734 @@ 2934 :> 1735 @@
  2976 :> 1737 @@ 2979 :> 1737 @@ 3052 :> 1740 @@ 3053 :> 1740 @@ 3055 :> 1740 @@ 3067 :> 1741 @@
  3123 :> 1743 @@ 3126 :> 1744 @@ 3132 :> 1744 @@ 3198 :> 1747 @@ 3200 :> 1747 @@ 3206 :> 1747 @@
  3268 :> 1750 @@ 3274 :> 1750 @@ 3333 :> 1753 @@ 3418 :> 1757 @@ 3466 :> 1759 @@ 4366 :> 1800 @@
  4375 :> 1800 @@ 4579 :> 1810 @@ 4586 :> 1810 @@ 4652 :> 1813 @@ 4653 :> 1813 @@ 4726 :> 1816 @@
  4727 :> 1816 @@ 4788 :> 1819 @@ 4793 :> 1819 @@ 4794 :> 1819 @@ 4800 :> 1820 @@ 4804 :> 1820 @@
  5973 :> 1872 @@ 6036 :> 1875 @@ 6106 :> 1878 @@ 6113 :> 1879 @@ 6174 :> 1881 @@ 6179 :> 1882 @@
  6252 :> 1885 @@ 6255 :> 1885 @@ 6323 :> 1888 @@ 7426 :> 1937 @@ 7494 :> 1940 @@ 7566 :> 1943 @@
  8750 :> 1995

\* K * (1 - expected) in hundredths; for d < 0 it is K minus the value for -d
EloGain(d) == IF d >= 0 THEN EloTable[d] ELSE 3200 - EloTable[0 - d]

\* calculateElo that gives the winner nothing
CalculateElo_NoGain(winnerElo, loserElo) ==
  [newWinnerElo |-> winnerElo, newLoserElo |-> loserElo]

\* calculateElo (part_002 lines 274-279), each result as Math.round(x * 100) /
\* 100 makes it when it is bound to the UPDATE (lines 203 and 206)
CalculateElo(winnerElo, loserElo) ==
  [newWinnerElo |-> winnerElo + EloGain(loserElo - winnerElo),
   newLoserElo |-> loserElo - EloGain(loserElo - winnerElo)]

\* SELECT ... FROM listings ORDER BY elo DESC (part_002 lines 105-107): the refs
\* of the rows in an order the statement allows (rows of equal elo in any order)
OrderByEloDesc(table) ==
  {results \in [1 .. Cardinality(DOMAIN table) -> DOMAIN table] :
     /\ \A i, j \in DOMAIN results : i # j => results[i] # results[j]
     /\ \A i, j \in DOMAIN results : i < j => table[results[i]].elo >= table[results[j]].elo}

\* weights of randomPair (part_002 lines 114-127); i counts from 1 here
Weights(pool, underplayed) ==
  IF Len(underplayed) >= 2
  THEN [i \in DOMAIN pool |-> 1]
  ELSE [i \in DOMAIN pool |->
          IF 10 * (i - 1) < Len(pool) THEN 5
          ELSE IF 4 * (i - 1) < Len(pool) THEN 3 ELSE 1]

\* pickOne (part_002 lines 131-142): the rows Math.random() can make it return
PickOne(pool, weights, exclude) ==
  {pool[i] : i \in {j \in DOMAIN pool : pool[j] # exclude /\ weights[j] > 0}}

\* randomPair (part_002 lines 104-148) over the rows in the order results: the
\* pairs it can return
PairsOf(table, results) ==
  LET underplayed == SelectSeq(results, LAMBDA r : table[r].matches < 2)
      pool == IF Len(underplayed) >= 2 THEN underplayed ELSE results
      weights == Weights(pool, underplayed)
  IN {pair \in (DOMAIN table) \X (DOMAIN table) :
        /\ pair[1] \in PickOne(pool, weights, "")
        /\ pair[2] \in PickOne(pool, weights, pair[1])}

RandomPair(table) ==
  IF Cardinality(DOMAIN table) < 2 THEN {}
  ELSE UNION {PairsOf(table, results) : results \in OrderByEloDesc(table)}

\* requests taken up so far
Served == served.vote + served.reset + served.matchup

\* GET /api/matchup (part_002 lines 164-169): the reply holds the two rows;
\* underplayed is kept beside it: the refs with fewer than 2 matches when the
\* rows were read
Matchup ==
  /\ Served < MaxRequests
  /\ served' = [served EXCEPT !.matchup = @ + 1]
  /\ IF RandomPair(dbListings) = {}
     THEN matchup' = <<[status |-> 500]>>
     ELSE \E pair \in RandomPair(dbListings) :
            matchup' = <<[status |-> 200,
                          a |-> [ref |-> pair[1], matches |-> dbListings[pair[1]].matches],
                          b |-> [ref |-> pair[2], matches |-> dbListings[pair[2]].matches],
                          underplayed |-> {r \in LISTINGS_BY_REF : dbListings[r].matches < 2}]>>
  /\ UNCHANGED <<cache, runnerVars, pipeVars, requested, scored, dbListings, dbVotes, handlers>>

\* String.prototype.trim on a sequence of characters
RECURSIVE TrimStart(_)
TrimStart(str) == IF str # <<>> /\ Head(str) = " " THEN TrimStart(Tail(str)) ELSE str

RECURSIVE TrimEnd(_)
TrimEnd(str) ==
  IF str # <<>> /\ str[Len(str)] = " " THEN TrimEnd(SubSeq(str, 1, Len(str) - 1)) ELSE str

\* voter.trim().slice(0, 64) (part_002 line 185)
VoterName(voter) ==
  LET trimmed == TrimEnd(TrimStart(voter)) IN SubSeq(trimmed, 1, Min2(Len(trimmed), 64))

\* the bodies of POST /api/vote: no JSON, or winner, loser (a ref, "zz" which
\* is no listing, or "" for none) and voter (characters)
VoteBodies ==
  {<<>>} \cup
  {<<[winner |-> w, loser |-> l, voter |-> v]>> :
     w \in LISTINGS_BY_REF \cup {"zz", ""}, l \in LISTINGS_BY_REF \cup {"zz"},
     v \in {<<" ">>, <<"a", "n">>}}

\* the checks of part_002 lines 174-186: the error of the reply, or "" when
\* the vote is accepted
VoteError(body) ==
  IF body = <<>> THEN "Invalid JSON"
  ELSE IF body[1].winner = "" \/ body[1].loser = "" \/ body[1].voter = <<>>
  THEN "Missing winner, loser, or voter"
  ELSE IF body[1].winner = body[1].loser THEN "winner and loser must differ"
  ELSE IF body[1].winner \notin LISTINGS_BY_REF THEN "Unknown winner ref"
  ELSE IF body[1].loser \notin LISTINGS_BY_REF THEN "Unknown loser ref"
  ELSE IF VoterName(body[1].voter) = <<>> THEN "voter name is empty"
  ELSE ""

\* POST /api/vote is refused with status 400 (part_002 lines 174-186)
VoteRefused(h, body) ==
  /\ handlers[h].pc = "idle"
  /\ VoteError(body) # ""
  /\ handlers' = [handlers EXCEPT ![h] = HandlerIdle(400)]
  /\ UNCHANGED <<cache, runnerVars, pipeVars, requested, scored,
                 dbListings, dbVotes, matchup, served>>

\* POST /api/vote passes the checks and reads the two rows (part_002 lines
\* 174-198)
VoteSelect(h, body) ==
  /\ handlers[h].pc = "idle"
  /\ VoteError(body) = ""
  /\ Served < MaxRequests
  /\ served' = [served EXCEPT !.vote = @ + 1]
  /\ LET winner == body[1].winner
         loser == body[1].loser
     IN IF winner \notin DOMAIN dbListings \/ loser \notin DOMAIN dbListings
        THEN handlers' = [handlers EXCEPT ![h] = HandlerIdle(500)]
        ELSE handlers' = [handlers EXCEPT ![h] =
               [pc |-> "batch", status |-> 0, winner |-> winner, loser |-> loser,
                winnerElo |-> dbListings[winner].elo, loserElo |-> dbListings[loser].elo]]
  /\ UNCHANGED <<cache, runnerVars, pipeVars, requested, scored, dbListings, dbVotes, matchup>>

\* the batch of a vote that inserts no row into votes
VoteRows_NoInsert(votes, winner, loser) == votes

\* INSERT INTO votes (part_002 lines 207-209)
VoteRows(votes, winner, loser) == Append(votes, [winner_ref |-> winner, loser_ref |-> loser])

\* the two UPDATE statements of the batch (part_002 lines 201-206) with the ELO
\* values bound to them
UpdateListings(table, winner, loser, elo) ==
  [table EXCEPT
     ![winner] = [elo |-> elo.newWinnerElo, wins |-> @.wins + 1, losses |-> @.losses,
                  matches |-> @.matches + 1],
     ![loser] = [elo |-> elo.newLoserElo, wins |-> @.wins, losses |-> @.losses + 1,
                 matches |-> @.matches + 1]]

\* await env.DB.batch([...]) of POST /api/vote (part_002 lines 198-210), one
\* transaction
VoteBatch(h) ==
  /\ handlers[h].pc = "batch"
  /\ dbListings' = UpdateListings(dbListings, handlers[h].winner, handlers[h].loser,
                                  CalculateElo(handlers[h].winnerElo, handlers[h].loserElo))
  /\ dbVotes' = VoteRows(dbVotes, handlers[h].winner, handlers[h].loser)
  /\ handlers' = [handlers EXCEPT ![h].pc = "count"]
  /\ UNCHANGED <<cache, runnerVars, pipeVars, requested, scored, matchup, served>>

\* SELECT COUNT(*) FROM votes and the reply (part_002 lines 212-216)
VoteCount(h) ==
  /\ handlers[h].pc = "count"
  /\ handlers' = [handlers EXCEPT ![h] = HandlerIdle(200)]
  /\ UNCHANGED <<cache, runnerVars, pipeVars, requested, scored,
                 dbListings, dbVotes, matchup, served>>

\* POST /api/reset (part_002 lines 254-260), one transaction
Reset ==
  /\ Served < MaxRequests
  /\ served' = [served EXCEPT !.reset = @ + 1]
  /\ dbVotes' = <<>>
  /\ dbListings' = [ref \in DOMAIN dbListings |->
                      [elo |-> 100000, wins |-> 0, losses |-> 0, matches |-> 0]]
  /\ UNCHANGED <<cache, runnerVars, pipeVars, requested, scored, handlers, matchup>>

NextVote ==
  \/ Matchup
  \/ \E h \in VoteHandlers, body \in VoteBodies : VoteRefused(h, body)
  \/ \E h \in VoteHandlers, body \in VoteBodies : VoteSelect(h, body)
  \/ \E h \in VoteHandlers : VoteBatch(h)
  \/ \E h \in VoteHandlers : VoteCount(h)
  \/ Reset

SpecVote == Init /\ [][NextVote]_vars


\* C26: whenever some listing has fewer than 2 matches when GET /api/matchup
\* reads the rows, both listings of the pair it returns have fewer than 2
\* matches.
C26_UnderplayedFirst ==
  \A k \in 1 .. Len(matchup) :
    matchup[k].status = 200 /\ matchup[k].underplayed # {} =>
      /\ matchup[k].a.ref \in matchup[k].underplayed
      /\ matchup[k].b.ref \in matchup[k].underplayed

\* the sum of field over the rows of the table listings
RECURSIVE SumOver(_, _)
SumOver(refs, field) ==
  IF refs = {} THEN 0
  ELSE LET r == CHOOSE x \in refs : TRUE
       IN dbListings[r][field] + SumOver(refs \ {r}, field)

\* C29: every row of listings has matches = wins + losses, and the sum of wins
\* over the rows equals the sum of losses and the number of rows of votes.
C29_CountersAgree ==
  /\ \A r \in DOMAIN dbListings :
       dbListings[r].matches = dbListings[r].wins + dbListings[r].losses
  /\ SumOver(DOMAIN dbListings, "wins") = Len(dbVotes)
  /\ SumOver(DOMAIN dbListings, "losses") = Len(dbVotes)

\* C29 witness: votes were accepted before and after a reset, and all have
\* been answered
C29_Witness ==
  /\ served.reset >= 1
  /\ served.vote >= 2
  /\ Len(dbVotes) >= 1
  /\ \A h \in VoteHandlers : handlers[h].pc = "idle"

\* the table listings after the votes are handled one after the other, each
\* from its arrival to its reply, starting from the seeded table
RECURSIVE Replay(_, _)
Replay(table, votes) ==
  IF votes = <<>> THEN table
  ELSE LET v == Head(votes)
       IN Replay(UpdateListings(table, v.winner_ref, v.loser_ref,
                                CalculateElo(table[v.winner_ref].elo, table[v.loser_ref].elo)),
                 Tail(votes))

Seeded == [ref \in LISTINGS_BY_REF |-> [elo |-> 100000, wins |-> 0, losses |-> 0, matches |-> 0]]

\* C30: when the votes accepted so far (no reset among the requests) have all
\* written their batches, the table listings is what handling these votes one
\* at a time, in some order, leaves.
C30_VotesSerializable ==
  (served.reset = 0 /\ \A h \in VoteHandlers : handlers[h].pc # "batch") =>
    \E order \in Permutations(1 .. Len(dbVotes)) :
      dbListings = Replay(Seeded, [k \in 1 .. Len(dbVotes) |-> dbVotes[order[k]]])

====
